---------------------------- MODULE Spec2Model ----------------------------
(***************************************************************************)
(* Model of the record canonicalization code of conversor-py               *)
(* (src/clientes.py and src/fornecedores.py).                              *)
(*                                                                         *)
(* A Python str is a sequence of characters.  An ASCII character is the    *)
(* one-character string holding it; a character outside ASCII is named by  *)
(* its code point ("U+00E9" is e-acute).  A spreadsheet cell is a record   *)
(* [t, s]: t = "nan" (empty cell, float NaN), "none" (None), "str" (s the  *)
(* text), "int" or "float" (s the decimal digits of a non-negative         *)
(* integral value below 10^16, without leading zeros).                     *)
(***************************************************************************)
EXTENDS Integers, Sequences, FiniteSets, TLC

VARIABLES
    variant,    \* "clientes" | "fornecedores": which module's functions run
    pc,         \* position of the run: "start" or the operation applied
    raw,        \* the cell value handed to the operation
    arg,        \* its second argument (fallback postal code, default DDD)
    out,        \* the str the operation returned
    row         \* the cells of the record being transformed

vars == <<variant, pc, raw, arg, out, row>>

Variants == {"clientes", "fornecedores"}

-----------------------------------------------------------------------------
(* Characters and Python str primitives                                    *)

DigitChars == {"0", "1", "2", "3", "4", "5", "6", "7", "8", "9"}

IsDigit(c) == c \in DigitChars

\* what str.strip() and the regex class \s remove
IsSpace(c) == c \in {" ", "\t", "\n", "\r", "\f"}

SetMin(S) == CHOOSE x \in S : \A y \in S : x <= y

SetMax(S) == CHOOSE x \in S : \A y \in S : y <= x

NaN == [t |-> "nan", s |-> <<>>]

None == [t |-> "none", s |-> <<>>]

Str(s) == [t |-> "str", s |-> s]

IntCell(ds) == [t |-> "int", s |-> ds]

FloatCell(ds) == [t |-> "float", s |-> ds]

\* pd.isna(v)
IsNa(v) == v.t \in {"nan", "none"}

\* str(v): a float prints with ".0", NaN prints "nan"
PyStr(v) ==
    CASE v.t = "str" -> v.s
      [] v.t = "int" -> v.s
      [] v.t = "float" -> v.s \o <<".", "0">>
      [] v.t = "nan" -> <<"n", "a", "n">>
      [] v.t = "none" -> <<"N", "o", "n", "e">>

\* s.strip()
Strip(s) ==
    LET I == {i \in 1..Len(s) : ~IsSpace(s[i])}
    IN  IF I = {} THEN <<>> ELSE SubSeq(s, SetMin(I), SetMax(I))

\* s[-n:]
LastN(s, n) == IF Len(s) <= n THEN s ELSE SubSeq(s, Len(s) - n + 1, Len(s))

Zeros(n) == [i \in 1..n |-> "0"]

\* s.zfill(n) of a digit string
ZFill(s, n) == IF Len(s) >= n THEN s ELSE Zeros(n - Len(s)) \o s

\* the pandas blank test: pd.isna(v) or str(v).strip() == ""
IsBlank(v) == IsNa(v) \/ Strip(PyStr(v)) = <<>>

-----------------------------------------------------------------------------
(* _only_digits (the same text in both modules)                            *)

\* index of the last character of the run of digits starting at i (i-1: none)
RunEnd(s, i) ==
    CHOOSE j \in (i - 1)..Len(s) :
        /\ \A k \in i..j : IsDigit(s[k])
        /\ (j = Len(s) \/ ~IsDigit(s[j + 1]))

AllDigits(s) == \A i \in 1..Len(s) : IsDigit(s[i])

\* re.fullmatch(r"\d+\.0", s)
MatchDotZero(s) ==
    /\ Len(s) >= 3
    /\ s[Len(s)] = "0"
    /\ s[Len(s) - 1] = "."
    /\ AllDigits(SubSeq(s, 1, Len(s) - 2))

\* the groups of re.fullmatch(r"[+-]?\d+(\.\d+)?([eE][+-]?\d+)?", s)
NumParse(s) ==
    LET hasSign == Len(s) >= 1 /\ s[1] \in {"+", "-"}
        p0      == IF hasSign THEN 2 ELSE 1
        iEnd    == RunEnd(s, p0)
        hasFrac == /\ iEnd + 2 <= Len(s)
                   /\ s[iEnd + 1] = "."
                   /\ RunEnd(s, iEnd + 2) >= iEnd + 2
        fEnd    == IF hasFrac THEN RunEnd(s, iEnd + 2) ELSE iEnd
        eSign   == fEnd + 2 <= Len(s) /\ s[fEnd + 2] \in {"+", "-"}
        q       == IF eSign THEN fEnd + 3 ELSE fEnd + 2
        hasExp  == /\ fEnd + 1 <= Len(s)
                   /\ s[fEnd + 1] \in {"e", "E"}
                   /\ q <= Len(s)
                   /\ RunEnd(s, q) >= q
        eEnd    == IF hasExp THEN RunEnd(s, q) ELSE fEnd
    IN  [ok     |-> iEnd >= p0 /\ eEnd = Len(s),
         neg    |-> hasSign /\ s[1] = "-",
         int    |-> SubSeq(s, p0, iEnd),
         frac   |-> IF hasFrac THEN SubSeq(s, iEnd + 2, fEnd) ELSE <<>>,
         expNeg |-> hasExp /\ eSign /\ s[fEnd + 2] = "-",
         exp    |-> IF hasExp THEN SubSeq(s, q, eEnd) ELSE <<>>]

DigitVal(c) ==
    CASE c = "0" -> 0 [] c = "1" -> 1 [] c = "2" -> 2 [] c = "3" -> 3
      [] c = "4" -> 4 [] c = "5" -> 5 [] c = "6" -> 6 [] c = "7" -> 7
      [] c = "8" -> 8 [] c = "9" -> 9

DigitChar(n) == <<"0", "1", "2", "3", "4", "5", "6", "7", "8", "9">>[n + 1]

\* the value of a short digit string (exponents only)
RECURSIVE ToNat(_)
ToNat(ds) ==
    IF ds = <<>> THEN 0
    ELSE 10 * ToNat(SubSeq(ds, 1, Len(ds) - 1)) + DigitVal(ds[Len(ds)])

\* str(int(ds)): leading zeros dropped, "0" for zero
StripZeros(ds) ==
    LET I == {i \in 1..Len(ds) : ds[i] # "0"}
    IN  IF I = {} THEN <<"0">> ELSE SubSeq(ds, SetMin(I), Len(ds))

\* str(int(ds) + 1)
RECURSIVE Incr(_)
Incr(ds) ==
    IF ds = <<>> THEN <<"1">>
    ELSE LET front == SubSeq(ds, 1, Len(ds) - 1)
             last  == ds[Len(ds)]
         IN  IF last = "9" THEN Incr(front) \o <<"0">>
             ELSE front \o <<DigitChar(DigitVal(last) + 1)>>

\* decimal.getcontext().prec: quantize raises InvalidOperation beyond it
DecimalPrec == 28

\* Decimal._round_half_even on coefficient c cut to its first n digits,
\* then the cut coefficient of Decimal._rescale: c[:n] or "0", plus one
\* when the rounding says so
RoundHalfEven(c, n) ==
    LET tail == SubSeq(c, n + 1, Len(c))
        half == tail[1] = "5" /\ \A i \in 2..Len(tail) : tail[i] = "0"
        even == n = 0 \/ c[n] \in {"0", "2", "4", "6", "8"}
        up   == ~(half /\ even) /\ tail[1] \in {"5", "6", "7", "8", "9"}
        base == IF n = 0 THEN <<"0">> ELSE SubSeq(c, 1, n)
    IN  IF up THEN Incr(base) ELSE base

\* Decimal._rescale(0, ROUND_HALF_EVEN) of coefficient coef, exponent e10:
\* the integral coefficient
Rescale(coef, e10) ==
    IF coef = <<"0">> THEN <<"0">>
    ELSE IF e10 >= 0 THEN coef \o Zeros(e10)
    ELSE IF Len(coef) + e10 < 0 THEN RoundHalfEven(<<"1">>, 0)
    ELSE RoundHalfEven(coef, Len(coef) + e10)

\* the exponent of Decimal(s) for the groups p of s
Exp10(p) == (IF p.expNeg THEN 0 - ToNat(p.exp) ELSE ToNat(p.exp)) - Len(p.frac)

\* format(d, "f") of the quantized value with integral coefficient res, or
\* s unchanged when quantize raised InvalidOperation (more digits than
\* the context precision) and the except branch passed
FormatOrKeep(s, neg, res) ==
    IF Len(res) > DecimalPrec THEN s
    ELSE (IF neg THEN <<"-">> ELSE <<>>) \o res

\* Decimal(s).quantize(0) for the groups p of s
QuantizeParsed(s, p) ==
    FormatOrKeep(s, p.neg, Rescale(StripZeros(p.int \o p.frac), Exp10(p)))

\* s = format(Decimal(s).quantize(0), "f") for s matching the numeric regex
DecimalQuantize(s) == QuantizeParsed(s, NumParse(s))

\* re.sub(r"\D", "", s)
RemoveNonDigits(s) == SelectSeq(s, IsDigit)

_only_digits(v) ==
    IF IsNa(v) THEN <<>>
    ELSE
      CHOOSE r \in
        { RemoveNonDigits(IF NumParse(s2).ok THEN DecimalQuantize(s2) ELSE s2) : s2 \in
        { IF MatchDotZero(s1) THEN SubSeq(s1, 1, Len(s1) - 2) ELSE s1 : s1 \in
        { Strip(IF v.t = "float" THEN v.s ELSE PyStr(v)) }}} : TRUE

-----------------------------------------------------------------------------
(* Masks                                                                   *)

\* num[a:b] of Python, 0-based and end-exclusive, clipped to the string
Slice(s, a, b) == SubSeq(s, a + 1, IF b > Len(s) THEN Len(s) ELSE b)

_mask_cpf(num11) ==
    Slice(num11, 0, 3) \o <<".">> \o Slice(num11, 3, 6) \o <<".">>
        \o Slice(num11, 6, 9) \o <<"-">> \o Slice(num11, 9, 11)

_mask_cnpj(num14) ==
    Slice(num14, 0, 2) \o <<".">> \o Slice(num14, 2, 5) \o <<".">>
        \o Slice(num14, 5, 8) \o <<"/">> \o Slice(num14, 8, 12)
        \o <<"-">> \o Slice(num14, 12, 14)

_mask_cep(num8) == Slice(num8, 0, 5) \o <<"-">> \o Slice(num8, 5, 8)

\* variant of cpf_cnpj_by_length: the person padding starts at 8 digits
cpf_cnpj_by_length_from8(digits) ==
    IF Len(digits) = 0 THEN <<>>
    ELSE IF Len(digits) = 11 THEN _mask_cpf(digits)
    ELSE IF Len(digits) = 14 THEN _mask_cnpj(digits)
    ELSE IF 7 < Len(digits) /\ Len(digits) < 11
         THEN _mask_cpf(ZFill(digits, 11))
    ELSE IF 11 < Len(digits) /\ Len(digits) < 14
         THEN _mask_cnpj(ZFill(digits, 14))
    ELSE digits

\* variant of cpf_cnpj_by_length: every value shorter than 11 is padded
cpf_cnpj_by_length_padshort(digits) ==
    IF Len(digits) = 0 THEN <<>>
    ELSE IF Len(digits) = 11 THEN _mask_cpf(digits)
    ELSE IF Len(digits) = 14 THEN _mask_cnpj(digits)
    ELSE IF Len(digits) < 11
         THEN _mask_cpf(ZFill(digits, 11))
    ELSE IF 11 < Len(digits) /\ Len(digits) < 14
         THEN _mask_cnpj(ZFill(digits, 14))
    ELSE digits

\* the branches of _smart_cpf_cnpj_mask on digits = _only_digits(raw)
cpf_cnpj_by_length(digits) ==
    IF Len(digits) = 0 THEN <<>>
    ELSE IF Len(digits) = 11 THEN _mask_cpf(digits)
    ELSE IF Len(digits) = 14 THEN _mask_cnpj(digits)
    ELSE IF 8 < Len(digits) /\ Len(digits) < 11
         THEN _mask_cpf(ZFill(digits, 11))
    ELSE IF 11 < Len(digits) /\ Len(digits) < 14
         THEN _mask_cnpj(ZFill(digits, 14))
    ELSE digits

\* clientes._smart_cpf_cnpj_mask
_smart_cpf_cnpj_mask(v) ==
    CHOOSE r \in {cpf_cnpj_by_length(digits) : digits \in {_only_digits(v)}} : TRUE

\* the branches of fornecedores._smart_cpf_cnpj_mask
cpf_cnpj_by_length_forn(digits) ==
    IF Len(digits) = 0 THEN <<>>
    ELSE IF Len(digits) = 11 THEN _mask_cpf(digits)
    ELSE IF Len(digits) = 14 THEN _mask_cnpj(digits)
    ELSE IF 8 < Len(digits) /\ Len(digits) < 11
         THEN _mask_cpf(ZFill(digits, 11))
    ELSE IF 11 < Len(digits) /\ Len(digits) < 14
         THEN _mask_cnpj(ZFill(digits, 14))
    ELSE digits

\* fornecedores._smart_cpf_cnpj_mask
_smart_cpf_cnpj_mask_forn(v) ==
    CHOOSE r \in {cpf_cnpj_by_length_forn(digits) : digits \in {_only_digits(v)}} : TRUE

\* variant of cep_fit: a long value keeps its first 8 digits
cep_fit_first8(digits) ==
    IF Len(digits) < 8 THEN ZFill(digits, 8)
    ELSE IF Len(digits) > 8 THEN Slice(digits, 0, 8)
    ELSE digits

\* the padding and cut of _smart_cep_mask
cep_fit(digits) ==
    IF Len(digits) < 8 THEN ZFill(digits, 8)
    ELSE IF Len(digits) > 8 THEN LastN(digits, 8)
    ELSE digits

\* the fallback of _smart_cep_mask: digits of the raw value, or of cep_padrao
cep_digits(digits, cep_padrao) ==
    IF Len(digits) = 0 THEN _only_digits(cep_padrao) ELSE digits

\* clientes._smart_cep_mask
_smart_cep_mask(v, cep_padrao) ==
    CHOOSE r \in
      { _mask_cep(cep_fit(digits)) : digits \in
      { cep_digits(d0, cep_padrao) : d0 \in {_only_digits(v)} }} : TRUE

\* fornecedores._smart_cep_mask (the same text)
_smart_cep_mask_forn(v, cep_padrao) ==
    CHOOSE r \in
      { _mask_cep(cep_fit(digits)) : digits \in
      { cep_digits(d0, cep_padrao) : d0 \in {_only_digits(v)} }} : TRUE

\* "(dd)" + sep + local[:cut] + "-" + local[cut:]
PhoneFormat(dd, sep, local, cut) ==
    <<"(">> \o dd \o <<")">> \o sep \o Slice(local, 0, cut) \o <<"-">>
        \o Slice(local, cut, Len(local))

\* clientes._format_phone_with_ddd
_format_phone_with_ddd(ddd, local) ==
    IF Len(local) = 8
    THEN PhoneFormat(LastN(ZFill(_only_digits(ddd), 2), 2), <<>>, local, 4)
    ELSE IF Len(local) = 9
    THEN PhoneFormat(LastN(ZFill(_only_digits(ddd), 2), 2), <<>>, local, 5)
    ELSE local

\* the branches of clientes._smart_phone_mask once digits holds at most
\* its last 11
phone_by_length(digits, ddd_default) ==
    IF Len(digits) < 8 THEN digits
    ELSE IF Len(digits) \in {8, 9}
         THEN _format_phone_with_ddd(ddd_default, digits)
    ELSE IF Len(digits) = 10
         THEN PhoneFormat(Slice(digits, 0, 2), <<>>, Slice(digits, 2, 10), 4)
    ELSE IF Len(digits) = 11
         THEN PhoneFormat(Slice(digits, 0, 2), <<>>, Slice(digits, 2, 11), 5)
    ELSE digits

\* variant of phone_last11: a long value keeps its first 11 digits
phone_first11(digits) == IF Len(digits) > 11 THEN Slice(digits, 0, 11) ELSE digits

\* digits[-11:] when there are more than 11
phone_last11(digits) == IF Len(digits) > 11 THEN LastN(digits, 11) ELSE digits

\* clientes._smart_phone_mask after digits = _only_digits(raw)
phone_of_digits(digits, ddd_default) ==
    IF digits = <<>> THEN <<>>
    ELSE phone_by_length(phone_last11(digits), ddd_default)

\* clientes._smart_phone_mask
_smart_phone_mask(v, ddd_default) ==
    CHOOSE r \in {phone_of_digits(digits, ddd_default) : digits \in {_only_digits(v)}} : TRUE

\* fornecedores._format_phone_with_ddd
_format_phone_with_ddd_forn(ddd, local) ==
    IF Len(local) = 8
    THEN PhoneFormat(LastN(ZFill(_only_digits(ddd), 2), 2), <<" ">>, local, 4)
    ELSE IF Len(local) = 9
    THEN PhoneFormat(LastN(ZFill(_only_digits(ddd), 2), 2), <<" ">>, local, 5)
    ELSE local

\* variant of phone_by_length_forn: 7 digits are too short as well
phone_by_length_forn_min8(digits, ddd_default) ==
    IF Len(digits) < 8 THEN <<>>
    ELSE IF Len(digits) \in {8, 9}
         THEN _format_phone_with_ddd_forn(ddd_default, digits)
    ELSE IF Len(digits) = 10
         THEN PhoneFormat(Slice(digits, 0, 2), <<" ">>, Slice(digits, 2, 10), 4)
    ELSE IF Len(digits) = 11
         THEN PhoneFormat(Slice(digits, 0, 2), <<" ">>, Slice(digits, 2, 11), 5)
    ELSE digits

\* the branches of fornecedores._smart_phone_mask
phone_by_length_forn(digits, ddd_default) ==
    IF Len(digits) < 7 THEN <<>>
    ELSE IF Len(digits) \in {8, 9}
         THEN _format_phone_with_ddd_forn(ddd_default, digits)
    ELSE IF Len(digits) = 10
         THEN PhoneFormat(Slice(digits, 0, 2), <<" ">>, Slice(digits, 2, 10), 4)
    ELSE IF Len(digits) = 11
         THEN PhoneFormat(Slice(digits, 0, 2), <<" ">>, Slice(digits, 2, 11), 5)
    ELSE digits

\* fornecedores._smart_phone_mask after digits = _only_digits(raw)
phone_of_digits_forn(digits, ddd_default) ==
    IF digits = <<>> THEN <<>>
    ELSE phone_by_length_forn(phone_last11(digits), ddd_default)

\* fornecedores._smart_phone_mask
_smart_phone_mask_forn(v, ddd_default) ==
    CHOOSE r \in {phone_of_digits_forn(digits, ddd_default) : digits \in {_only_digits(v)}} : TRUE

-----------------------------------------------------------------------------
(* Unicode properties of the characters the model reads                    *)

LowerLetters ==
    <<"a", "b", "c", "d", "e", "f", "g", "h", "i", "j", "k", "l", "m",
      "n", "o", "p", "q", "r", "s", "t", "u", "v", "w", "x", "y", "z">>

UpperLetters ==
    <<"A", "B", "C", "D", "E", "F", "G", "H", "I", "J", "K", "L", "M",
      "N", "O", "P", "Q", "R", "S", "T", "U", "V", "W", "X", "Y", "Z">>

Range(f) == {f[i] : i \in DOMAIN f}

AsciiLetters == Range(LowerLetters) \cup Range(UpperLetters)

\* precomposed letters: <<character, base letter, combining mark, upper case>>
Accented ==
    { <<"U+00E9", "e", "U+0301", "U+00C9">>, <<"U+00C9", "E", "U+0301", "U+00C9">>,
      <<"U+00E7", "c", "U+0327", "U+00C7">>, <<"U+00C7", "C", "U+0327", "U+00C7">>,
      <<"U+00E3", "a", "U+0303", "U+00C3">>, <<"U+00C3", "A", "U+0303", "U+00C3">>,
      <<"U+00E2", "a", "U+0302", "U+00C2">>, <<"U+00C2", "A", "U+0302", "U+00C2">> }

AccentedChars == {a[1] : a \in Accented}

\* unicodedata.category(ch) == "Mn"
IsMark(c) == c \in {"U+0301", "U+0302", "U+0303", "U+0327"}

\* letters outside Latin-1 that have no decomposition (L with stroke)
OtherLetters == {"U+0141"}

\* ch.isalpha()
IsAlpha(c) == c \in AsciiLetters \cup AccentedChars \cup OtherLetters

\* the regex class \w
IsWord(c) == IsAlpha(c) \/ IsDigit(c) \/ c = "_"

\* unicodedata.normalize("NFD", ch)
NFDChar(c) ==
    IF c \in AccentedChars
    THEN LET a == CHOOSE x \in Accented : x[1] = c IN <<a[2], a[3]>>
    ELSE <<c>>

\* ch.upper()
UpperChar(c) ==
    IF c \in Range(LowerLetters)
    THEN UpperLetters[CHOOSE i \in 1..26 : LowerLetters[i] = c]
    ELSE IF c \in AccentedChars
    THEN (CHOOSE x \in Accented : x[1] = c)[4]
    ELSE c

RECURSIVE Flatten(_)
Flatten(ss) ==
    IF ss = <<>> THEN <<>> ELSE Head(ss) \o Flatten(Tail(ss))

Upper(s) == [i \in 1..Len(s) |-> UpperChar(s[i])]

\* C1 controls and the characters Windows-1252 puts on their bytes
\* (0x81 is a byte Windows-1252 leaves undefined)
C1Controls == {"U+0080", "U+0081", "U+0092", "U+0096"}

Cp1252Only == {"U+20AC", "U+2019", "U+2013"}

\* characters with a code point above U+00FF that Windows-1252 lacks too
Beyond == {"U+0301", "U+0302", "U+0303", "U+0327", "U+0141"}

\* ch.encode("latin1", errors="ignore").decode("cp1252", errors="ignore")
Latin1ToCp1252(c) ==
    CASE c = "U+0080" -> <<"U+20AC">>
      [] c = "U+0092" -> <<"U+2019">>
      [] c = "U+0096" -> <<"U+2013">>
      [] c = "U+0081" -> <<>>
      [] c \in Cp1252Only \cup Beyond -> <<>>
      [] OTHER -> <<c>>

\* ch.encode("cp1252", errors="ignore").decode("latin1", errors="ignore")
Cp1252ToLatin1(c) ==
    CASE c = "U+20AC" -> <<"U+0080">>
      [] c = "U+2019" -> <<"U+0092">>
      [] c = "U+2013" -> <<"U+0096">>
      [] c \in C1Controls \cup Beyond -> <<>>
      [] OTHER -> <<c>>

-----------------------------------------------------------------------------
(* Text normalisation                                                      *)

_strip_accents(v) ==
    IF IsNa(v) THEN <<>>
    ELSE LET s   == PyStr(v)
             nfd == Flatten([i \in 1..Len(s) |-> NFDChar(s[i])])
         IN  SelectSeq(nfd, LAMBDA ch : ~IsMark(ch))

\* the characters score() counts as bad
MojibakeMarkers ==
    {"U+00C3", "U+00A2", "U+00A1", "U+00C2", "U+00A7", "U+00A5"}

\* score(t) of _fix_mojibake_pt
score(t) ==
    LET bad     == Cardinality({i \in 1..Len(t) : t[i] \in MojibakeMarkers})
        letters == Cardinality({i \in 1..Len(t) : IsAlpha(t[i])})
    IN  <<letters - 2 * bad, 0 - Len(t)>>

\* tuple comparison a > b
TupleGreater(a, b) == a[1] > b[1] \/ (a[1] = b[1] /\ a[2] > b[2])

\* max(cands, key=score): the first candidate no later one beats
MaxByScore(cands) ==
    LET best == CHOOSE i \in 1..Len(cands) :
                    /\ \A j \in 1..Len(cands) :
                           ~TupleGreater(score(cands[j]), score(cands[i]))
                    /\ \A j \in 1..(i - 1) :
                           TupleGreater(score(cands[i]), score(cands[j]))
    IN  cands[best]

_fix_mojibake_pt(v) ==
    IF v.t = "none" THEN <<>>
    ELSE LET s  == PyStr(v)
             c1 == Flatten([i \in 1..Len(s) |-> Latin1ToCp1252(s[i])])
             c2 == Flatten([i \in 1..Len(s) |-> Cp1252ToLatin1(s[i])])
         IN  MaxByScore(<<s, c1, c2>>)

\* the class [A-Za-z0-9 ]
IsPlain(c) == c \in AsciiLetters \/ IsDigit(c) \/ c = " "

\* re.sub(r"[^A-Za-z0-9 ]+", " ", s): every maximal run of characters
\* outside the class becomes one space
SubSpecials(s) ==
    Flatten([i \in 1..Len(s) |->
                IF IsPlain(s[i]) THEN <<s[i]>>
                ELSE IF i = 1 \/ IsPlain(s[i - 1]) THEN <<" ">>
                ELSE <<>>])

\* re.sub(r"\s+", " ", s): every maximal run of whitespace becomes one space
SubSpaces(s) ==
    Flatten([i \in 1..Len(s) |->
                IF ~IsSpace(s[i]) THEN <<s[i]>>
                ELSE IF i = 1 \/ ~IsSpace(s[i - 1]) THEN <<" ">>
                ELSE <<>>])

\* variant of SanitizeTail: trims before the substitutions, not after
SanitizeTail_stripfirst(s) == SubSpaces(SubSpecials(Strip(s)))

\* the last three lines of _sanitize_text, the same in both modules
SanitizeTail(s) == Strip(SubSpaces(SubSpecials(s)))

\* clientes._sanitize_text
_sanitize_text(v) == SanitizeTail(_strip_accents(v))

\* fornecedores._sanitize_text
_sanitize_text_forn(v) == SanitizeTail(_strip_accents(Str(_fix_mojibake_pt(v))))

-----------------------------------------------------------------------------
(* Address number                                                          *)

\* Python truth value of a cell value that is not NaN
Truthy(v) ==
    CASE v.t = "str" -> v.s # <<>>
      [] v.t \in {"int", "float"} -> v.s # <<"0">>
      [] OTHER -> FALSE

\* the class [.,;:\s]
IsTrailPunct(c) == c \in {".", ",", ";", ":"} \/ IsSpace(c)

\* re.sub(r"[.,;:\s]+$", "", s)
StripTrailPunct(s) ==
    LET I == {i \in 1..Len(s) : ~IsTrailPunct(s[i])}
    IN  IF I = {} THEN <<>> ELSE SubSeq(s, 1, SetMax(I))

\* the class [\/\s]
IsSlashOrSpace(c) == c = "/" \/ IsSpace(c)

\* re.search(r"\bS[\/\s]*N\.?$", s)
EndsWithSN(s) ==
    \E i \in 1..Len(s) :
      \E j \in (i + 1)..Len(s) :
        /\ s[i] = "S"
        /\ i = 1 \/ ~IsWord(s[i - 1])
        /\ \A k \in (i + 1)..(j - 1) : IsSlashOrSpace(s[k])
        /\ s[j] = "N"
        /\ j = Len(s) \/ (j + 1 = Len(s) /\ s[j + 1] = ".")

\* group 1 of re.search(r"(\d+)$", s); empty when there is no match
TrailingDigits(s) ==
    LET I == {i \in 1..Len(s) : \A k \in i..Len(s) : IsDigit(s[k])}
    IN  IF I = {} THEN <<>> ELSE SubSeq(s, SetMin(I), Len(s))

\* variant of _extract_num_from_endereco: the address is not upper-cased
_extract_num_from_endereco_asis(v) ==
    IF ~Truthy(v) THEN <<>>
    ELSE LET s == StripTrailPunct(Strip(PyStr(v)))
         IN  IF EndsWithSN(s) THEN <<"S", "N">>
             ELSE TrailingDigits(s)

\* the same text in both modules
_extract_num_from_endereco(v) ==
    IF ~Truthy(v) THEN <<>>
    ELSE LET s == StripTrailPunct(Upper(Strip(PyStr(v))))
         IN  IF EndsWithSN(s) THEN <<"S", "N">>
             ELSE TrailingDigits(s)

\* whether (\d+|S[\/\s]*N)\s*$ matches s from index i on, case ignored
TailMatchesAt(s, i) ==
    \E j \in i..Len(s) :
        /\ \A k \in (j + 1)..Len(s) : IsSpace(s[k])
        /\ \/ \A k \in i..j : IsDigit(s[k])
           \/ /\ j > i
              /\ s[i] \in {"S", "s"}
              /\ s[j] \in {"N", "n"}
              /\ \A k \in (i + 1)..(j - 1) : IsSlashOrSpace(s[k])

\* re.sub(r"(\d+|S[\/\s]*N)\s*$", "", s, flags=re.IGNORECASE): the leftmost
\* match is the one removed
RemoveTailNumber(s) ==
    LET I == {i \in 1..Len(s) : TailMatchesAt(s, i)}
    IN  IF I = {} THEN s ELSE SubSeq(s, 1, SetMin(I) - 1)

\* the address-number step of a row (clientes.py 345-356, and the same
\* text in fornecedores.py 457-467): the cells numero and endereco after it
NumeroStep(r) ==
    IF ~IsBlank(r.numero) THEN r
    ELSE LET val_end      == r.endereco
             num_extraido == _extract_num_from_endereco(
                                 IF IsNa(val_end) THEN Str(<<>>) ELSE val_end)
             novo_end     == RemoveTailNumber(Upper(PyStr(val_end)))
         IN  IF num_extraido = <<>> THEN r
             ELSE [r EXCEPT !.numero = Str(num_extraido),
                            !.endereco = Str(Strip(novo_end))]

-----------------------------------------------------------------------------
(* Input values                                                            *)

MaxZeros == 3

MaxDigits == 15

MaxAddrLen == 4

MaxTextLen == 3

\* digit strings: z zeros, then k digits of one of two fixed patterns
\* (1234567890123... and 9630741852...)
Body(b, k) ==
    [i \in 1..k |-> DigitChar(IF b = 1 THEN i % 10 ELSE (7 * i + 2) % 10)]

DigitStrings ==
    {Zeros(z) \o Body(b, k) : z \in 0..MaxZeros, k \in 0..MaxDigits, b \in {1, 2}}

\* the integral numbers a spreadsheet cell can hold exactly as a float
Numerals == {d \in DigitStrings : d # <<>> /\ d = StripZeros(d) /\ Len(d) <= 15}

NumberCells == {IntCell(d) : d \in Numerals} \cup {FloatCell(d) : d \in Numerals}

\* d with the character p[2] put after its p[1]-th digit, for each p of P
Punctuated(d, P) ==
    Flatten([i \in 1..Len(d) |->
                IF \E p \in P : p[1] = i
                THEN <<d[i], (CHOOSE p \in P : p[1] = i)[2]>>
                ELSE <<d[i]>>])

\* how a digit string is typed into a text cell: bare, padded with spaces,
\* exported with a ".0" tail, or punctuated as a CPF, a CNPJ, a CEP, a phone
Typed(d) ==
    { d,
      <<" ">> \o d \o <<" ">>,
      d \o <<".", "0">>,
      Punctuated(d, {<<3, ".">>, <<6, ".">>, <<9, "-">>}),
      Punctuated(d, {<<2, ".">>, <<5, ".">>, <<8, "/">>, <<12, "-">>}),
      Punctuated(d, {<<5, "-">>}),
      <<"(">> \o Punctuated(d, {<<2, ")">>, <<7, "-">>}) }

TextCells == {Str(t) : t \in UNION {Typed(d) : d \in DigitStrings}}

DigitCells ==
    TextCells \cup NumberCells
        \cup {NaN, None, Str(<<"a", "b", "c">>),
              Str(<<"3", "1", "9", "8", "7", "6", "5", "4", "3", "2", "1">>),
              Str(<<"9", "8", "7", "6", "5", "4", "3", "2", "1">>)}

\* fallback postal codes
CepFallbacks ==
    { Str(<<"0", "1", "0", "0", "0", "0", "0", "0">>),
      Str(<<"0", "1", "0", "0", "0", "-", "0", "0", "0">>),
      Str(<<"0", "0", "0", "0", "0", "-", "0", "0", "0">>),
      Str(<<"1", "2", "3">>),
      Str(<<"1", "2", "3", "4", "5", "6", "7", "8", "9">>),
      Str(<<>>) }

\* default area codes
DddDefaults ==
    { Str(<<"3", "1">>), Str(<<"0", "0">>), Str(<<"0", "5">>),
      Str(<<"5">>), Str(<<"0", "3", "1">>), Str(<<>>) }

SeqsUpTo(A, n) == UNION {[1..k -> A] : k \in 0..n}

AddrAlphabet == {"a", "s", "N", "1", " ", "/", "."}

RuaDasFlores123 ==
    <<"R", "U", "A", " ", "D", "A", "S", " ", "F", "L", "O", "R", "E", "S",
      " ", "1", "2", "3">>

AvCentralSN == <<"A", "V", " ", "C", "E", "N", "T", "R", "A", "L", " ", "S", "/", "N">>

AddrExamples ==
    { Str(RuaDasFlores123), Str(AvCentralSN),
      Str(<<"R", "u", "a", " ", "A", ",", " ", "1", "2", "3", ".">>),
      Str(<<"a", "v", " ", "b", " ", "s", " ", "n", ".", " ">>),
      NaN, None, IntCell(<<"1", "2">>), IntCell(<<"0">>), FloatCell(<<"1", "2">>) }

AddrCells == {Str(t) : t \in SeqsUpTo(AddrAlphabet, MaxAddrLen)} \cup AddrExamples

\* the address-number cell: empty in several ways, or already filled
NumeroCells == {NaN, Str(<<>>), Str(<<" ">>), Str(<<"4", "5">>), IntCell(<<"7">>)}

TextAlphabet ==
    {"a", "1", " ", "-", "U+00E9", "U+00C3", "U+00A2", "U+2013", "U+0301"}

TextInputs ==
    {Str(t) : t \in SeqsUpTo(TextAlphabet, MaxTextLen)}
        \cup {NaN, None, IntCell(<<"1", "2">>), FloatCell(<<"1", "2">>)}

EmptyRow == [numero |-> NaN, endereco |-> NaN]

-----------------------------------------------------------------------------
(* Tax-ID masking                                                          *)

InitTaxId ==
    /\ variant \in Variants
    /\ pc = "start"
    /\ raw \in DigitCells
    /\ arg = NaN
    /\ out = <<>>
    /\ row = EmptyRow

MaskTaxId ==
    /\ pc = "start"
    /\ pc' = "cpf_cnpj"
    /\ out' = IF variant = "clientes" THEN _smart_cpf_cnpj_mask(raw)
              ELSE _smart_cpf_cnpj_mask_forn(raw)
    /\ UNCHANGED <<variant, raw, arg, row>>

\* the mask applied to its own result, as a second run of the pipeline on
\* the table the first one wrote does
RemaskTaxId ==
    /\ pc = "cpf_cnpj"
    /\ pc' = "cpf_cnpj_again"
    /\ arg' = raw
    /\ raw' = Str(out)
    /\ out' = IF variant = "clientes" THEN _smart_cpf_cnpj_mask(Str(out))
              ELSE _smart_cpf_cnpj_mask_forn(Str(out))
    /\ UNCHANGED <<variant, row>>

NextTaxId == MaskTaxId \/ RemaskTaxId

SpecTaxId == InitTaxId /\ [][NextTaxId]_vars

(* Postal-code masking                                                     *)

InitCep ==
    /\ variant \in Variants
    /\ pc = "start"
    /\ raw \in DigitCells
    /\ arg \in CepFallbacks
    /\ out = <<>>
    /\ row = EmptyRow

MaskCep ==
    /\ pc = "start"
    /\ pc' = "cep"
    /\ out' = IF variant = "clientes" THEN _smart_cep_mask(raw, arg)
              ELSE _smart_cep_mask_forn(raw, arg)
    /\ UNCHANGED <<variant, raw, arg, row>>

NextCep == MaskCep

SpecCep == InitCep /\ [][NextCep]_vars

(* Phone masking                                                           *)

InitPhone ==
    /\ variant \in Variants
    /\ pc = "start"
    /\ raw \in DigitCells
    /\ arg \in DddDefaults
    /\ out = <<>>
    /\ row = EmptyRow

MaskPhone ==
    /\ pc = "start"
    /\ pc' = "fone"
    /\ out' = IF variant = "clientes" THEN _smart_phone_mask(raw, arg)
              ELSE _smart_phone_mask_forn(raw, arg)
    /\ UNCHANGED <<variant, raw, arg, row>>

NextPhone == MaskPhone

SpecPhone == InitPhone /\ [][NextPhone]_vars

(* Address number and address text of one row; raw and arg keep the cells  *)
(* as they were read                                                       *)

InitAddr ==
    /\ variant \in Variants
    /\ pc = "start"
    /\ \/ arg = NaN /\ raw \in AddrCells
       \/ arg \in NumeroCells /\ raw \in AddrExamples
    /\ out = <<>>
    /\ row = [numero |-> arg, endereco |-> raw]

ExtractNumero ==
    /\ pc = "start"
    /\ pc' = "numero"
    /\ row' = NumeroStep(row)
    /\ UNCHANGED <<variant, raw, arg, out>>

\* the text step for the endereco column (clientes.py 360-364,
\* fornecedores.py 470-474)
SanitizeEndereco ==
    /\ pc = "numero"
    /\ pc' = "texto"
    /\ row' = IF IsBlank(row.endereco) THEN row
              ELSE [row EXCEPT !.endereco =
                       Str(IF variant = "clientes" THEN _sanitize_text(@)
                           ELSE _sanitize_text_forn(@))]
    /\ UNCHANGED <<variant, raw, arg, out>>

NextAddr == ExtractNumero \/ SanitizeEndereco

SpecAddr == InitAddr /\ [][NextAddr]_vars

(* Text sanitisation and mojibake repair; arg keeps the first input        *)

InitText ==
    /\ variant \in Variants
    /\ pc = "start"
    /\ raw \in TextInputs
    /\ arg = NaN
    /\ out = <<>>
    /\ row = EmptyRow

Sanitize ==
    /\ pc = "start"
    /\ pc' = "sanitized"
    /\ out' = IF variant = "clientes" THEN _sanitize_text(raw)
              ELSE _sanitize_text_forn(raw)
    /\ UNCHANGED <<variant, raw, arg, row>>

\* the function applied to its own result
Resanitize ==
    /\ pc = "sanitized"
    /\ pc' = "resanitized"
    /\ arg' = raw
    /\ raw' = Str(out)
    /\ out' = IF variant = "clientes" THEN _sanitize_text(Str(out))
              ELSE _sanitize_text_forn(Str(out))
    /\ UNCHANGED <<variant, row>>

FixMojibake ==
    /\ pc = "start"
    /\ variant = "fornecedores"
    /\ pc' = "fixed"
    /\ out' = _fix_mojibake_pt(raw)
    /\ UNCHANGED <<variant, raw, arg, row>>

NextText == Sanitize \/ Resanitize \/ FixMojibake

SpecText == InitText /\ [][NextText]_vars

-----------------------------------------------------------------------------
(* Shapes of the canonical forms                                           *)

\* s has the character marks[i] at each position i of DOMAIN marks and a
\* digit everywhere else, n characters in all
HasShape(s, n, marks) ==
    /\ Len(s) = n
    /\ \A i \in 1..n :
           IF i \in DOMAIN marks THEN s[i] = marks[i] ELSE IsDigit(s[i])

\* ddd.ddd.ddd-dd
IsCpfShape(s) == HasShape(s, 14, (4 :> ".") @@ (8 :> ".") @@ (12 :> "-"))

\* dd.ddd.ddd/dddd-dd
IsCnpjShape(s) ==
    HasShape(s, 18, (3 :> ".") @@ (7 :> ".") @@ (11 :> "/") @@ (16 :> "-"))

\* ddddd-ddd
IsCepShape(s) == HasShape(s, 9, (6 :> "-"))

\* the separator after the closing parenthesis of a phone
PhoneSep == IF variant = "fornecedores" THEN <<" ">> ELSE <<>>

\* (dd)dddd-dddd or (dd)ddddd-dddd, PhoneSep after the parenthesis
IsPhoneShape(s) ==
    \E n \in {4, 5} :
        /\ Len(s) = 4 + Len(PhoneSep) + n + 5
        /\ s[1] = "(" /\ IsDigit(s[2]) /\ IsDigit(s[3]) /\ s[4] = ")"
        /\ SubSeq(s, 5, 4 + Len(PhoneSep)) = PhoneSep
        /\ HasShape(SubSeq(s, 5 + Len(PhoneSep), Len(s)), n + 5, ((n + 1) :> "-"))

IsDigitText(v) == v.t = "str" /\ AllDigits(v.s)

-----------------------------------------------------------------------------
(* C1: for every digit string d of length 11 or 14, leading zeros          *)
(* included, the digits extracted from maskTaxId(d) are d again, and the   *)
(* mask has the shape ddd.ddd.ddd-dd (11) or dd.ddd.ddd/dddd-dd (14).      *)
C1_RoundTrip ==
    (pc = "cpf_cnpj" /\ IsDigitText(raw) /\ Len(raw.s) \in {11, 14}) =>
        /\ _only_digits(Str(out)) = raw.s
        /\ Len(raw.s) = 11 => IsCpfShape(out)
        /\ Len(raw.s) = 14 => IsCnpjShape(out)

(* C2: maskTaxId classifies by the number n of digits extracted from the   *)
(* raw value, in both variants: 11 gives the person mask, 14 the           *)
(* organization mask, 9-10 are zero-padded to 11 and person-masked, 12-13  *)
(* zero-padded to 14 and organization-masked, 0 gives the empty string,    *)
(* every other n the bare digit string.                                    *)
C2_ClassifyByDigitCount ==
    pc = "cpf_cnpj" =>
        LET d == _only_digits(raw)
            n == Len(d)
        IN  /\ n = 11 => IsCpfShape(out) /\ RemoveNonDigits(out) = d
            /\ n = 14 => IsCnpjShape(out) /\ RemoveNonDigits(out) = d
            /\ n \in {9, 10} =>
                   IsCpfShape(out) /\ RemoveNonDigits(out) = Zeros(11 - n) \o d
            /\ n \in {12, 13} =>
                   IsCnpjShape(out) /\ RemoveNonDigits(out) = Zeros(14 - n) \o d
            /\ n = 0 => out = <<>>
            /\ n \notin {0, 9, 10, 11, 12, 13, 14} => out = d

C2_Witness ==
    /\ pc = "cpf_cnpj"
    /\ variant = "fornecedores"
    /\ Len(_only_digits(raw)) = 13
    /\ IsCnpjShape(out)
    /\ out[1] = "0"

Cpf12345678901 ==
    <<"1", "2", "3", ".", "4", "5", "6", ".", "7", "8", "9", "-", "0", "1">>

(* C3, as claimed: maskTaxId("12345678901") = "123.456.789-01", and        *)
(* maskTaxId("123") = "000.000.001-23" (zero-padded to 11, then masked).   *)
C3_Original ==
    pc = "cpf_cnpj" =>
        /\ raw = Str(Body(1, 11)) => out = Cpf12345678901
        /\ raw = Str(<<"1", "2", "3">>) =>
               out = <<"0", "0", "0", ".", "0", "0", "0", ".", "0", "0", "1",
                       "-", "2", "3">>

(* C3, amended: maskTaxId("12345678901") = "123.456.789-01", and a raw     *)
(* value with 1 to 8 digits is not padded: the result is its bare digit    *)
(* string, so maskTaxId("123") = "123".                                    *)
C3_FewDigitsUnmasked ==
    pc = "cpf_cnpj" =>
        /\ raw = Str(Body(1, 11)) => out = Cpf12345678901
        /\ raw = Str(<<"1", "2", "3">>) => out = <<"1", "2", "3">>
        /\ Len(_only_digits(raw)) \in 1..8 => out = _only_digits(raw)

C3_Witness ==
    /\ pc = "cpf_cnpj"
    /\ raw = Str(<<"1", "2", "3">>)
    /\ out = <<"1", "2", "3">>

(* C4: for every raw value and fallback, maskPostalCode returns a string   *)
(* ddddd-ddd whose digits are those of the raw value, or of the fallback   *)
(* when the raw value has none, left-zero-padded to 8 when fewer and cut   *)
(* to the last 8 when more; maskPostalCode("", "01000000") = "01000-000".  *)
C4_PostalCode ==
    pc = "cep" =>
        LET d0 == _only_digits(raw)
            d  == IF d0 = <<>> THEN _only_digits(arg) ELSE d0
        IN  /\ IsCepShape(out)
            /\ Len(d) <= 8 => RemoveNonDigits(out) = Zeros(8 - Len(d)) \o d
            /\ Len(d) > 8 => RemoveNonDigits(out) = SubSeq(d, Len(d) - 7, Len(d))
            \* text holding only digits and hyphens: the digits as typed
            /\ (raw.t = "str" /\ raw.s # <<>>
                    /\ \A i \in 1..Len(raw.s) : IsDigit(raw.s[i]) \/ raw.s[i] = "-")
               => LET t == RemoveNonDigits(raw.s)
                  IN  RemoveNonDigits(out) = LastN(Zeros(8) \o t, 8)
            /\ (raw = Str(<<>>) /\ arg = Str(<<"0", "1", "0", "0", "0", "0", "0", "0">>))
               => out = <<"0", "1", "0", "0", "0", "-", "0", "0", "0">>

C4_Witness ==
    /\ pc = "cep"
    /\ raw = Str(<<>>)
    /\ arg = Str(<<"0", "1", "0", "0", "0", "0", "0", "0">>)
    /\ out = <<"0", "1", "0", "0", "0", "-", "0", "0", "0">>

Phone3198765_4321 ==
    <<"(", "3", "1", ")", "9", "8", "7", "6", "5", "-", "4", "3", "2", "1">>

C6_Original ==
    pc = "fone" =>
        LET d   == _only_digits(raw)
            min == IF variant = "clientes" THEN 8 ELSE 7
        IN  /\ Len(d) < min => out = (IF variant = "clientes" THEN d ELSE <<>>)
            /\ Len(d) >= min => IsPhoneShape(out)

(* C6, amended: fewer digits than the minimum (8 for clients, 7 for        *)
(* suppliers) give the rejected form; at least 8 digits give a masked      *)
(* phone; a supplier value with exactly 7 digits is returned as its bare   *)
(* digit string, neither rejected nor masked.                              *)
C6_PhoneThreshold ==
    pc = "fone" =>
        LET d   == _only_digits(raw)
            min == IF variant = "clientes" THEN 8 ELSE 7
        IN  /\ Len(d) < min => out = (IF variant = "clientes" THEN d ELSE <<>>)
            /\ Len(d) >= 8 => IsPhoneShape(out)
            /\ (variant = "fornecedores" /\ Len(d) = 7) => out = d

C6_Witness ==
    /\ pc = "fone"
    /\ variant = "fornecedores"
    /\ Len(_only_digits(raw)) = 7
    /\ out = _only_digits(raw)

\* the text of an address cell, empty for a missing one
AddrText(v) == IF IsNa(v) THEN <<>> ELSE PyStr(v)

\* the address as extraction reads it: upper-cased, trailing whitespace
\* and . , ; : dropped
AddrRead(v) == StripTrailPunct(Upper(Strip(AddrText(v))))

\* a ends in one of the tokens S/N, S N, SN, standing as a word of its own
EndsInListedToken(a) ==
    \E tok \in {<<"S", "/", "N">>, <<"S", " ", "N">>, <<"S", "N">>} :
        /\ Len(a) >= Len(tok)
        /\ SubSeq(a, Len(a) - Len(tok) + 1, Len(a)) = tok
        /\ Len(a) = Len(tok) \/ ~IsWord(a[Len(a) - Len(tok)])

IsAddrText(v) == v.t \in {"str", "nan", "none"}

C8_NumberRemoved ==
    (pc = "numero" /\ IsBlank(arg) /\ raw.t = "str"
         /\ _extract_num_from_endereco(raw) # <<>>) =>
        /\ row.numero = Str(_extract_num_from_endereco(raw))
        /\ row.endereco = Str(Strip(RemoveTailNumber(AddrRead(raw))))

(* C9: sanitizeText is idempotent in both variants: applied to its own     *)
(* result it returns that result.                                          *)
C9_SanitizeIdempotent ==
    pc = "resanitized" => out = raw.s

C9_Witness ==
    /\ pc = "resanitized"
    /\ variant = "fornecedores"
    /\ arg.t = "str"
    /\ Len(arg.s) = MaxTextLen
    /\ \E i \in 1..Len(arg.s) : ~IsPlain(arg.s[i])
    /\ out # <<>>
    /\ out # arg.s
    /\ out = raw.s

(* C10: repairMojibake returns its input unchanged for every string that   *)
(* holds none of the six marker characters, whatever else it holds.        *)
C10_NoMarkerNoChange ==
    (pc = "fixed" /\ raw.t = "str"
         /\ \A i \in 1..Len(raw.s) : raw.s[i] \notin MojibakeMarkers) =>
        out = raw.s

-----------------------------------------------------------------------------
(* Column resolution (_best_guess_columns).  A column label is a str; a    *)
(* table is [columns, cells]: the labels in order and, for each column,    *)
(* its cells by row.  A colmap holds, per logical field in schema order,   *)
(* Str(label) or None.                                                     *)

\* the lower case of the upper-case letters
UpperToLower ==
    [c \in Range(UpperLetters) \cup {x[4] : x \in Accented} |->
        IF c \in Range(UpperLetters)
        THEN LowerLetters[CHOOSE i \in 1..26 : UpperLetters[i] = c]
        ELSE (CHOOSE x \in Accented : x[4] = c /\ x[1] # c)[1]]

\* ch.lower()
LowerChar(c) == IF c \in DOMAIN UpperToLower THEN UpperToLower[c] ELSE c

Lower(s) == [i \in 1..Len(s) |-> LowerChar(s[i])]

LowerAll(ss) == [i \in 1..Len(ss) |-> Lower(ss[i])]

\* x in h
Contains(h, x) ==
    \E i \in 0..(Len(h) - Len(x)) : SubSeq(h, i + 1, i + Len(x)) = x

\* the colmap literal of clientes._best_guess_columns, in key order
SchemaClientes ==
    <<
      [ k |-> <<"u", "f">>,
        cands |-> <<
            <<"u", "f">>, <<"e", "s", "t", "a", "d", "o">>,
            <<"s", "i", "g", "l", "a", "_", "u", "f">>
        >> ],
      [ k |-> <<"c", "p", "f", "_", "c", "n", "p", "j">>,
        cands |-> <<
            <<"c", "p", "f", "_", "c", "n", "p", "j">>,
            <<"c", "p", "f", "c", "n", "p", "j">>,
            <<"d", "o", "c", "u", "m", "e", "n", "t", "o">>,
            <<"d", "o", "c">>, <<"c", "n", "p", "j", "c", "p", "f">>
        >> ],
      [ k |-> <<"c", "e", "p">>,
        cands |-> <<
            <<"c", "e", "p">>,
            <<"c", "o", "d", "i", "g", "o", "_", "p", "o", "s", "t", "a", "l">>
        >> ],
      [ k |-> <<"c", "i", "d", "a", "d", "e">>,
        cands |-> <<
            <<"c", "i", "d", "a", "d", "e">>,
            <<"m", "u", "n", "i", "c", "i", "p", "i", "o">>,
            <<"m", "u", "n", "i", "c", "i", "p", "U+00ED", "o">>,
            <<"m", "u", "n", "i", "c", "U+00ED", "p", "i", "o">>
        >> ],
      [ k |-> <<"c", "o", "d", "i", "g", "o", "_", "c", "i", "d", "a", "d", "e">>,
        cands |-> <<
            <<"c", "o", "d", "i", "g", "o", "_", "c", "i", "d", "a", "d", "e">>,
            <<"c", "o", "d", "_", "c", "i", "d", "a", "d", "e">>,
            <<"c", "o", "d", "i", "g", "o", "_", "m", "u", "n", "i", "c", "i", "p", "i", "o">>,
            <<"c", "o", "d", "_", "m", "u", "n", "i", "c", "i", "p", "i", "o">>,
            <<"i", "b", "g", "e">>
        >> ],
      [ k |-> <<"r", "a", "z", "a", "o", "_", "n", "o", "m", "e">>,
        cands |-> <<
            <<"r", "a", "z", "a", "o", "_", "n", "o", "m", "e">>,
            <<"r", "a", "z", "U+00E3", "o", "_", "n", "o", "m", "e">>,
            <<"r", "a", "z", "a", "o">>, <<"r", "a", "z", "U+00E3", "o">>,
            <<"r", "a", "z", "a", "o", " ", "s", "o", "c", "i", "a", "l">>,
            <<"r", "a", "z", "a", "o", "_", "s", "o", "c", "i", "a", "l">>,
            <<"n", "o", "m", "e">>,
            <<"n", "o", "m", "e", "_", "r", "a", "z", "a", "o">>
        >> ],
      [ k |-> <<"e", "n", "d", "e", "r", "e", "c", "o">>,
        cands |-> <<
            <<"e", "n", "d", "e", "r", "e", "c", "o">>,
            <<"e", "n", "d", "e", "r", "e", "U+00E7", "o">>,
            <<"l", "o", "g", "r", "a", "d", "o", "u", "r", "o">>
        >> ],
      [ k |-> <<"b", "a", "i", "r", "r", "o">>,
        cands |-> <<
            <<"b", "a", "i", "r", "r", "o">>
        >> ],
      [ k |-> <<"c", "o", "m", "p", "l", "e", "m", "e", "n", "t", "o">>,
        cands |-> <<
            <<"c", "o", "m", "p", "l", "e", "m", "e", "n", "t", "o">>,
            <<"c", "o", "m", "p", "l">>
        >> ],
      [ k |-> <<"c", "o", "n", "t", "a", "t", "o">>,
        cands |-> <<
            <<"c", "o", "n", "t", "a", "t", "o">>,
            <<"r", "e", "s", "p", "o", "n", "s", "a", "v", "e", "l">>,
            <<"r", "e", "s", "p", "o", "n", "s", "U+00E1", "v", "e", "l">>
        >> ],
      [ k |-> <<"f", "a", "n", "t", "a", "s", "i", "a", "_", "a", "p", "e", "l", "i", "d", "o">>,
        cands |-> <<
            <<"f", "a", "n", "t", "a", "s", "i", "a", "_", "a", "p", "e", "l", "i", "d", "o">>,
            <<"f", "a", "n", "t", "a", "s", "i", "a">>,
            <<"a", "p", "e", "l", "i", "d", "o">>,
            <<"n", "o", "m", "e", "_", "f", "a", "n", "t", "a", "s", "i", "a">>
        >> ],
      [ k |-> <<"t", "e", "l", "_", "p", "r", "i", "n", "c", "i", "p", "a", "l">>,
        cands |-> <<
            <<"t", "e", "l", "_", "p", "r", "i", "n", "c", "i", "p", "a", "l">>,
            <<"t", "e", "l", "e", "f", "o", "n", "e">>,
            <<"t", "e", "l", "e", "f", "o", "n", "e", "1">>,
            <<"t", "e", "l", "1">>, <<"f", "o", "n", "e">>,
            <<"f", "o", "n", "e", "1">>
        >> ],
      [ k |-> <<"t", "e", "l", "_", "c", "o", "m", "e", "r", "c", "i", "a", "l">>,
        cands |-> <<
            <<"t", "e", "l", "_", "c", "o", "m", "e", "r", "c", "i", "a", "l">>,
            <<"t", "e", "l", "e", "f", "o", "n", "e", "2">>,
            <<"t", "e", "l", "2">>, <<"f", "o", "n", "e", "2">>
        >> ],
      [ k |-> <<"n", "u", "m", "e", "r", "o">>,
        cands |-> <<
            <<"n", "u", "m", "e", "r", "o">>,
            <<"n", "U+00FA", "m", "e", "r", "o">>, <<"n", "u", "m">>
        >> ]
    >>

\* the colmap literal of fornecedores._best_guess_columns, in key order
SchemaFornecedores ==
    <<
      [ k |-> <<"u", "f">>,
        cands |-> <<
            <<"u", "f">>, <<"e", "s", "t", "a", "d", "o">>,
            <<"s", "i", "g", "l", "a", "_", "u", "f">>
        >> ],
      [ k |-> <<"c", "p", "f", "_", "c", "n", "p", "j">>,
        cands |-> <<
            <<"c", "p", "f", "_", "c", "n", "p", "j">>,
            <<"c", "p", "f", "c", "n", "p", "j">>,
            <<"d", "o", "c", "u", "m", "e", "n", "t", "o">>,
            <<"d", "o", "c">>, <<"c", "n", "p", "j", "c", "p", "f">>
        >> ],
      [ k |-> <<"c", "e", "p">>,
        cands |-> <<
            <<"c", "e", "p">>,
            <<"c", "o", "d", "i", "g", "o", "_", "p", "o", "s", "t", "a", "l">>
        >> ],
      [ k |-> <<"c", "i", "d", "a", "d", "e">>,
        cands |-> <<
            <<"c", "i", "d", "a", "d", "e">>,
            <<"m", "u", "n", "i", "c", "i", "p", "i", "o">>,
            <<"m", "u", "n", "i", "c", "i", "p", "U+00ED", "o">>,
            <<"m", "u", "n", "i", "c", "U+00ED", "p", "i", "o">>
        >> ],
      [ k |-> <<"c", "o", "d", "i", "g", "o", "_", "c", "i", "d", "a", "d", "e">>,
        cands |-> <<
            <<"c", "o", "d", "i", "g", "o", "_", "c", "i", "d", "a", "d", "e">>,
            <<"c", "o", "d", "_", "c", "i", "d", "a", "d", "e">>,
            <<"c", "o", "d", "i", "g", "o", "_", "m", "u", "n", "i", "c", "i", "p", "i", "o">>,
            <<"c", "o", "d", "_", "m", "u", "n", "i", "c", "i", "p", "i", "o">>,
            <<"i", "b", "g", "e">>
        >> ],
      [ k |-> <<"n", "o", "m", "e">>,
        cands |-> <<
            <<"n", "o", "m", "e">>, <<"r", "a", "z", "a", "o">>,
            <<"r", "a", "z", "a", "o", "_", "s", "o", "c", "i", "a", "l">>,
            <<"r", "a", "z", "U+00E3", "o", "_", "s", "o", "c", "i", "a", "l">>
        >> ],
      [ k |-> <<"f", "a", "n", "t", "a", "s", "i", "a">>,
        cands |-> <<
            <<"f", "a", "n", "t", "a", "s", "i", "a">>,
            <<"a", "p", "e", "l", "i", "d", "o">>,
            <<"n", "o", "m", "e", "_", "f", "a", "n", "t", "a", "s", "i", "a">>
        >> ],
      [ k |-> <<"e", "n", "d", "e", "r", "e", "c", "o">>,
        cands |-> <<
            <<"e", "n", "d", "e", "r", "e", "c", "o">>,
            <<"e", "n", "d", "e", "r", "e", "U+00E7", "o">>,
            <<"l", "o", "g", "r", "a", "d", "o", "u", "r", "o">>
        >> ],
      [ k |-> <<"b", "a", "i", "r", "r", "o">>,
        cands |-> <<
            <<"b", "a", "i", "r", "r", "o">>
        >> ],
      [ k |-> <<"c", "o", "n", "t", "a", "t", "o">>,
        cands |-> <<
            <<"c", "o", "n", "t", "a", "t", "o">>,
            <<"r", "e", "s", "p", "o", "n", "s", "a", "v", "e", "l">>,
            <<"r", "e", "s", "p", "o", "n", "s", "U+00E1", "v", "e", "l">>
        >> ],
      [ k |-> <<"f", "o", "n", "e">>,
        cands |-> <<
            <<"f", "o", "n", "e">>,
            <<"t", "e", "l", "e", "f", "o", "n", "e">>,
            <<"t", "e", "l", "e", "f", "o", "n", "e", "1">>,
            <<"t", "e", "l", "1">>
        >> ],
      [ k |-> <<"n", "u", "m", "e", "r", "o">>,
        cands |-> <<
            <<"n", "u", "m", "e", "r", "o">>,
            <<"n", "U+00FA", "m", "e", "r", "o">>, <<"n", "u", "m">>
        >> ]
    >>

Schema(v) == IF v = "clientes" THEN SchemaClientes ELSE SchemaFornecedores

\* the positions of the keys the positional fallbacks name
KeyUf == 1
KeyCidade == 4
KeyCodigoCidade == 5

\* variant of CandsLower: every candidate list without its first entry
CandsLower_tail ==
    [v \in Variants |->
        [i \in 1..Len(Schema(v)) |-> Tail(LowerAll(Schema(v)[i].cands))]]

\* [cand.lower() for cand in cands], for every key of the two literals
CandsLower ==
    [v \in Variants |-> [i \in 1..Len(Schema(v)) |-> LowerAll(Schema(v)[i].cands)]]

\* cols_lower[name]: the last column whose lower-cased label is name
\* (lcols: the lower-cased labels)
ColsLower(columns, lcols, name) ==
    columns[SetMax({j \in 1..Len(columns) : lcols[j] = name})]

\* the candidates that are keys of cols_lower
ExactHits(lcols, lcands) ==
    {i \in 1..Len(lcands) : \E j \in 1..Len(lcols) : lcols[j] = lcands[i]}

\* the columns whose lower-cased label contains some candidate
SubstringHits(lcols, lcands) ==
    {j \in 1..Len(lcols) : \E i \in 1..Len(lcands) : Contains(lcols[j], lcands[i])}

\* variant of find_any: the substring pass before the exact pass
find_any_substring_first(columns, lcols, lcands) ==
    IF SubstringHits(lcols, lcands) # {}
    THEN Str(columns[SetMin(SubstringHits(lcols, lcands))])
    ELSE IF ExactHits(lcols, lcands) # {}
    THEN Str(ColsLower(columns, lcols, lcands[SetMin(ExactHits(lcols, lcands))]))
    ELSE None

\* find_any on the labels columns, lower-cased lcols, for the lower-cased
\* candidates lcands
find_any(columns, lcols, lcands) ==
    IF ExactHits(lcols, lcands) # {}
    THEN Str(ColsLower(columns, lcols, lcands[SetMin(ExactHits(lcols, lcands))]))
    ELSE IF SubstringHits(lcols, lcands) # {}
    THEN Str(columns[SetMin(SubstringHits(lcols, lcands))])
    ELSE None

\* the colmap literal evaluated on the labels of the table
MatchLower(v, columns, lcols) ==
    [i \in 1..Len(Schema(v)) |-> find_any(columns, lcols, CandsLower[v][i])]

MatchHeaders(v, columns) == MatchLower(v, columns, LowerAll(columns))

\* df.columns[n] (n counted from 0) for a key still None, when the table
\* has more than n columns
Positional(cm, key, columns, n) ==
    IF cm[key] = None /\ Len(columns) > n
    THEN [cm EXCEPT ![key] = Str(columns[n + 1])]
    ELSE cm

\* the positional fallbacks: F and G in both modules, B for suppliers
Fallbacks(v, cm, columns) ==
    IF v = "clientes"
    THEN Positional(Positional(cm, KeyCidade, columns, 5), KeyCodigoCidade, columns, 6)
    ELSE Positional(
             Positional(Positional(cm, KeyCidade, columns, 5),
                        KeyCodigoCidade, columns, 6),
             KeyUf, columns, 1)

\* str(i) for 0 <= i < 100
IntStr(i) == IF i < 10 THEN <<DigitChar(i)>> ELSE <<DigitChar(i \div 10), DigitChar(i % 10)>>

\* the name the while loop ends on: base, or base_i for the least i >= 2
\* that is no label of the table
NewName(base, columns) ==
    IF \A j \in 1..Len(columns) : columns[j] # base THEN base
    ELSE base \o <<"_">> \o
         IntStr(SetMin({i \in 2..(Len(columns) + 2) :
                           \A j \in 1..Len(columns) :
                               columns[j] # base \o <<"_">> \o IntStr(i)}))

\* df[new_name] = "": a new last column, the empty str in every row
AddColumn(df, name) ==
    [ columns |-> Append(df.columns, name),
      cells |-> Append(df.cells,
                       [r \in 1..(IF df.cells = <<>> THEN 0 ELSE Len(df.cells[1]))
                          |-> Str(<<>>)]) ]

\* variant of EnsureColumn: the key gets its new name but the table no
\* new column
EnsureColumn_nocolumn(st, i, key) ==
    IF st.colmap[i] # None THEN st
    ELSE [ df |-> st.df,
           colmap |-> [st.colmap EXCEPT ![i] = Str(NewName(key, st.df.columns))],
           created |-> Append(st.created, NewName(key, st.df.columns)) ]

\* variant of EnsureColumn: the new column is left out of created
EnsureColumn_unlogged(st, i, key) ==
    IF st.colmap[i] # None THEN st
    ELSE [ df |-> AddColumn(st.df, NewName(key, st.df.columns)),
           colmap |-> [st.colmap EXCEPT ![i] = Str(NewName(key, st.df.columns))],
           created |-> st.created ]

\* one turn of the loop over the keys: st = [df, colmap, created]
EnsureColumn(st, i, key) ==
    IF st.colmap[i] # None THEN st
    ELSE [ df |-> AddColumn(st.df, NewName(key, st.df.columns)),
           colmap |-> [st.colmap EXCEPT ![i] = Str(NewName(key, st.df.columns))],
           created |-> Append(st.created, NewName(key, st.df.columns)) ]

\* the loop over the keys, from key i on
RECURSIVE EnsureColumns(_, _, _)
EnsureColumns(schema, st, i) ==
    IF i > Len(schema) THEN st
    ELSE EnsureColumns(schema, EnsureColumn(st, i, schema[i].k), i + 1)

\* _best_guess_columns of module v: the table as the call leaves it, with
\* the colmap and the list created it returns
_best_guess_columns(v, df) ==
    EnsureColumns(Schema(v),
                  [ df |-> df,
                    colmap |-> Fallbacks(v, MatchHeaders(v, df.columns), df.columns),
                    created |-> <<>> ],
                  1)

(* Header rows and the resolution runs                                     *)

MaxHeaders == 9

\* labels a spreadsheet may carry, in sheet order
AllHeaders ==
    <<
      <<"M", "u", "n", "i", "c", "i", "p", "i", "o">>, <<"U", "F">>,
      <<"D", "o", "c", "u", "m", "e", "n", "t", "o">>, <<"O", "b", "s">>,
      <<"D", "a", "t", "a">>, <<"u", "f">>,
      <<"n", "o", "m", "e", "_", "f", "a", "n", "t", "a", "s", "i", "a">>,
      <<"c", "o", "d", "_", "c", "i", "d", "a", "d", "e">>,
      <<"T", "e", "l", "e", "f", "o", "n", "e", "2">>,
      <<"V", "a", "l", "o", "r">>, <<"C", "E", "P">>,
      <<"E", "n", "d", "e", "r", "e", "U+00E7", "o">>
    >>

\* the labels of AllHeaders at the positions in P, in order
Pick(P) ==
    [k \in 1..Cardinality(P) |->
        AllHeaders[CHOOSE i \in P : Cardinality({j \in P : j <= i}) = k]]

Reverse(s) == [i \in 1..Len(s) |-> s[Len(s) + 1 - i]]

HeaderRows ==
    {Pick(P) : P \in SUBSET (1..MaxHeaders)}
        \cup {Reverse(Pick(P)) : P \in SUBSET (1..MaxHeaders)}

\* a sheet of two rows under the labels hs: column j holds the number j
\* and an empty cell
TableOf(hs) ==
    [ columns |-> hs,
      cells |-> [j \in 1..Len(hs) |-> <<IntCell(IntStr(j)), NaN>>] ]

\* raw: the table as read; row: [df, colmap, created] after the last call
\* of _best_guess_columns; arg: the same after the call before it
InitCols ==
    /\ variant \in Variants
    /\ pc = "start"
    /\ raw \in {TableOf(hs) : hs \in HeaderRows}
    /\ arg = NaN
    /\ out = <<>>
    /\ row = EmptyRow

Resolve ==
    /\ pc = "start"
    /\ pc' = "resolved"
    /\ row' = _best_guess_columns(variant, raw)
    /\ UNCHANGED <<variant, raw, arg, out>>

\* the same call on the table the first one left
ResolveAgain ==
    /\ pc = "resolved"
    /\ pc' = "resolved_again"
    /\ arg' = row
    /\ row' = _best_guess_columns(variant, row.df)
    /\ UNCHANGED <<variant, raw, out>>

NextCols == Resolve \/ ResolveAgain

SpecCols == InitCols /\ [][NextCols]_vars

-----------------------------------------------------------------------------
(* Claims on column resolution                                             *)

MunicipioUfDocumento == SubSeq(AllHeaders, 1, 3)

CepKey == <<"c", "e", "p">>

\* the positions of the label name in the table
ColumnsNamed(df, name) == {j \in 1..Len(df.columns) : df.columns[j] = name}

\* the keys that neither header matching nor a positional fallback
\* resolves on the table as read
Unresolved ==
    {i \in 1..Len(Schema(variant)) :
        Fallbacks(variant, MatchHeaders(variant, raw.columns), raw.columns)[i] = None}

(* C11: after column resolution on any header row, every logical field of  *)
(* the schema (14 for clients, 12 for suppliers) maps to exactly one       *)
(* physical column, and that column exists in the table.                   *)
C11_EveryFieldMapped ==
    pc = "resolved" =>
        /\ Len(row.colmap) = (IF variant = "clientes" THEN 14 ELSE 12)
        /\ \A i \in 1..Len(row.colmap) :
               /\ row.colmap[i].t = "str"
               /\ Cardinality(ColumnsNamed(row.df, row.colmap[i].s)) = 1

C11_Witness ==
    /\ pc = "resolved"
    /\ variant = "clientes"
    /\ raw.columns = MunicipioUfDocumento
    /\ row.colmap[KeyCidade] = Str(AllHeaders[1])
    /\ Len(row.created) = 11
    /\ Len(row.df.columns) = 14

(* C12: in the ColumnMap of any header row, no two logical fields map to   *)
(* the same physical column unless one of them was resolved by a           *)
(* positional fallback; two fields resolved by exact or substring header   *)
(* matching never share a column.                                          *)
C12_NoAliasing ==
    pc = "resolved" =>
        \A i, j \in 1..Len(row.colmap) :
            (i # j /\ row.colmap[i] = row.colmap[j]) =>
                \/ MatchHeaders(variant, raw.columns)[i] = None
                \/ MatchHeaders(variant, raw.columns)[j] = None

(* C13: a logical field that neither header matching nor a positional      *)
(* fallback resolves gets a new column named after the field (numeric      *)
(* suffix when that name is already a header), empty in every row; the     *)
(* ChangeLog lists exactly the columns so created, and resolution changes  *)
(* no pre-existing column name or cell.                                    *)
C13_Synthesized ==
    pc = "resolved" =>
        /\ \A i \in Unresolved :
               LET key  == Schema(variant)[i].k
                   name == row.colmap[i].s
               IN  /\ ColumnsNamed(raw, name) = {}
                   /\ ColumnsNamed(raw, key) = {} => name = key
                   /\ ColumnsNamed(raw, key) # {} =>
                          /\ Len(name) > Len(key) + 1
                          /\ SubSeq(name, 1, Len(key) + 1) = key \o <<"_">>
                          /\ AllDigits(SubSeq(name, Len(key) + 2, Len(name)))
                   /\ \A j \in ColumnsNamed(row.df, name) :
                          /\ j > Len(raw.columns)
                          /\ \A r \in 1..Len(row.df.cells[j]) :
                                 row.df.cells[j][r] = Str(<<>>)
        /\ Len(row.created) = Cardinality(Unresolved)
        /\ Range(row.created) = {row.colmap[i].s : i \in Unresolved}
        /\ Len(row.df.columns) = Len(raw.columns) + Cardinality(Unresolved)
        /\ SubSeq(row.df.columns, 1, Len(raw.columns)) = raw.columns
        /\ SubSeq(row.df.cells, 1, Len(raw.cells)) = raw.cells

C13_Witness ==
    /\ pc = "resolved"
    /\ variant = "fornecedores"
    /\ raw.columns = MunicipioUfDocumento
    /\ CepKey \in Range(row.created)
    /\ row.df.columns[4] = CepKey
    /\ row.df.cells[4] = <<Str(<<>>), Str(<<>>)>>
    /\ row.df.cells[1] = raw.cells[1]

(* C14: a second resolution on the table left by the first synthesizes no  *)
(* further column: its ChangeLog is empty and the header set is unchanged. *)
(* With headers [Municipio, UF, Documento] the postal-code field is        *)
(* synthesized once and never duplicated.                                  *)
C14_SecondRunCreatesNothing ==
    pc = "resolved_again" =>
        /\ row.created = <<>>
        /\ row.df = arg.df
        /\ raw.columns = MunicipioUfDocumento =>
               /\ CepKey \in Range(arg.created)
               /\ Cardinality({j \in 1..Len(row.df.columns) :
                       Contains(row.df.columns[j], CepKey)}) = 1

C14_Witness ==
    /\ pc = "resolved_again"
    /\ raw.columns = MunicipioUfDocumento
    /\ CepKey \in Range(arg.created)
    /\ row.created = <<>>
    /\ Len(row.df.columns) = Len(raw.columns) + Len(arg.created)

(* C15: a second resolution on the table left by the first returns the     *)
(* same field-to-column mapping as the first, for every header row,        *)
(* including rows where the first run used a positional fallback or        *)
(* synthesized columns.                                                    *)
C15_SecondRunSameMap ==
    pc = "resolved_again" => row.colmap = arg.colmap

-----------------------------------------------------------------------------
(* Reference table loaders.  The table is read without header and with     *)
(* dtype=str: a sequence of columns, each the cells of its rows, a cell    *)
(* being Str(text) or NaN.  A dict is a function on its keys.              *)

\* fillna("").astype(str) on one cell
Fill(c) == IF IsNa(c) THEN <<>> ELSE c.s

NRows(df) == IF df = <<>> THEN 0 ELSE Len(df[1])

\* the characters of column col as <<row, position>>
CharsOf(col) ==
    UNION {{<<r, i>> : i \in 1..Len(Fill(col[r]))} : r \in 1..Len(col)}

\* col.str.count(r"[A-Za-z]").sum() - col.str.count(r"\d").sum()
AlphaMinusDigits(col) ==
    Cardinality({p \in CharsOf(col) : Fill(col[p[1]])[p[2]] \in AsciiLetters})
        - Cardinality({p \in CharsOf(col) : IsDigit(Fill(col[p[1]])[p[2]])})

\* no column
NoIdx == -1

\* variant of MostAlphabetic: the least (score, i) pair
MostAlphabetic_least(df) ==
    CHOOSE i \in 0..(SetMin({Len(df), 8}) - 1) :
        \A j \in 0..(SetMin({Len(df), 8}) - 1) :
            \/ AlphaMinusDigits(df[j + 1]) > AlphaMinusDigits(df[i + 1])
            \/ AlphaMinusDigits(df[j + 1]) = AlphaMinusDigits(df[i + 1]) /\ j >= i

\* scores.sort(reverse=True)[0][1]: the greatest (score, i) pair among the
\* first 8 columns
MostAlphabetic(df) ==
    CHOOSE i \in 0..(SetMin({Len(df), 8}) - 1) :
        \A j \in 0..(SetMin({Len(df), 8}) - 1) :
            \/ AlphaMinusDigits(df[j + 1]) < AlphaMinusDigits(df[i + 1])
            \/ AlphaMinusDigits(df[j + 1]) = AlphaMinusDigits(df[i + 1]) /\ j <= i

\* nome_series.name: column D when there are more than 3 columns
NomeIdx(df) == IF Len(df) > 3 THEN 3 ELSE MostAlphabetic(df)

\* _as_digits(col).str.match(r"^\d{7}$").sum()
IbgeHits(col) ==
    Cardinality({r \in 1..Len(col) : Len(_only_digits(Str(Fill(col[r])))) = 7})

\* _is_uf_series(col)
UfHits(col) ==
    Cardinality({r \in 1..Len(col) :
        /\ Len(Strip(Fill(col[r]))) = 2
        /\ \A i \in 1..2 : Upper(Strip(Fill(col[r])))[i] \in Range(UpperLetters)})

\* variant of FirstBest: the last column of scan with the most hits
FirstBest_last(scan, hits) ==
    IF scan = {} THEN NoIdx
    ELSE SetMax({i \in scan : \A j \in scan : hits[j + 1] <= hits[i + 1]})

\* the loop "if hits > best_hits" over the columns in scan: the first
\* column of scan with the most hits (hits: the hits by column index)
FirstBest(scan, hits) ==
    IF scan = {} THEN NoIdx
    ELSE SetMin({i \in scan : \A j \in scan : hits[j + 1] <= hits[i + 1]})

\* the preferred column pref (NoIdx when the table is too narrow) unless
\* the best scanned column has more hits
Preferred(pref, best, hits) ==
    IF best = NoIdx THEN pref
    ELSE IF pref = NoIdx THEN best
    ELSE IF hits[best + 1] > hits[pref + 1] THEN best
    ELSE pref

AllIbgeHits(df) == [j \in 1..Len(df) |-> IbgeHits(df[j])]

AllUfHits(df) == [j \in 1..Len(df) |-> UfHits(df[j])]

\* the columns a role scan reads: the first 12 but those in skip
ScanCols(df, skip) == {i \in 0..(SetMin({Len(df), 12}) - 1) : i \notin skip}

\* ibge_idx, from the name column and the hits of every column
IbgeIdxFrom(df, nome, hits) ==
    Preferred(IF Len(df) > 1 THEN 1 ELSE NoIdx, FirstBest(ScanCols(df, {nome}), hits), hits)

IbgeIdx(df) == IbgeIdxFrom(df, NomeIdx(df), AllIbgeHits(df))

\* uf_idx, from the name and code columns and the hits of every column
UfIdxFrom(df, nome, ibge, hits) ==
    Preferred(IF Len(df) > 4 THEN 4 ELSE NoIdx,
              FirstBest(ScanCols(df, {nome, ibge}), hits), hits)

UfIdx(df, nome, ibge) == UfIdxFrom(df, nome, ibge, AllUfHits(df))

\* the start of the separator \s*[-,]?\s* that ends just before position e
SepStart(t, e) ==
    LET a == SetMin({i \in 1..e : \A k \in i..(e - 1) : IsSpace(t[k])})
    IN  IF a > 1 /\ t[a - 1] \in {"-", ","}
        THEN SetMin({i \in 1..(a - 1) : \A k \in i..(a - 2) : IsSpace(t[k])})
        ELSE a

\* re.sub(r"\s*[-,]?\s*\([A-Z]{2}\)$", "", t)
RemoveParenRegion(t) ==
    IF /\ Len(t) >= 4
       /\ t[Len(t) - 3] = "(" /\ t[Len(t)] = ")"
       /\ t[Len(t) - 2] \in Range(UpperLetters)
       /\ t[Len(t) - 1] \in Range(UpperLetters)
    THEN SubSeq(t, 1, SepStart(t, Len(t) - 3) - 1)
    ELSE t

\* re.sub(r"\s*[-,]?\s+[A-Z]{2}$", "", t)
RemoveTrailRegion(t) ==
    IF /\ Len(t) >= 3
       /\ IsSpace(t[Len(t) - 2])
       /\ t[Len(t) - 1] \in Range(UpperLetters)
       /\ t[Len(t)] \in Range(UpperLetters)
    THEN SubSeq(t, 1, SepStart(t, Len(t) - 1) - 1)
    ELSE t

\* re.sub(r"[^A-Z0-9 ]+", " ", t)
SubNonUpper(t) ==
    LET keep(c) == c \in Range(UpperLetters) \/ IsDigit(c) \/ c = " "
    IN  Flatten([i \in 1..Len(t) |->
            IF keep(t[i]) THEN <<t[i]>>
            ELSE IF i > 1 /\ ~keep(t[i - 1]) THEN <<>>
            ELSE <<" ">>])

\* fornecedores._normalize_city_for_match
_normalize_city_for_match(v) ==
    IF v.t = "none" THEN <<>>
    ELSE Strip(SubSpaces(SubNonUpper(RemoveTrailRegion(RemoveParenRegion(
             Strip(Upper(_strip_accents(Str(_fix_mojibake_pt(Str(PyStr(v))))))))))))

\* fornecedores._normalize_city
_normalize_city_forn(s) == Strip(Upper(_strip_accents(Str(s))))

\* ch is cased
IsCased(c) == c \in AsciiLetters \cup AccentedChars \cup OtherLetters

\* str.title()
Title(s) ==
    [i \in 1..Len(s) |->
        IF i > 1 /\ IsCased(s[i - 1]) THEN LowerChar(s[i]) ELSE UpperChar(s[i])]

\* variant of RefRow: the code is left-zero-padded to 7 digits
RefRow_padded(df, nome, ibge, uf, r) ==
    [ nome |-> Fill(df[nome + 1][r]),
      nome_norm |-> _normalize_city_forn(Fill(df[nome + 1][r])),
      cod_norm |-> ZFill(Strip(_only_digits(Str(Fill(df[ibge + 1][r])))), 7),
      uf_norm |-> IF uf = NoIdx THEN <<>> ELSE Upper(Strip(Upper(Strip(Fill(df[uf + 1][r]))))) ]

\* one turn of the zip loop: the row as [nome, nome_norm, cod_norm, uf_norm]
RefRow(df, nome, ibge, uf, r) ==
    [ nome |-> Fill(df[nome + 1][r]),
      nome_norm |-> _normalize_city_forn(Fill(df[nome + 1][r])),
      cod_norm |-> Strip(_only_digits(Str(Fill(df[ibge + 1][r])))),
      uf_norm |-> IF uf = NoIdx THEN <<>> ELSE Upper(Strip(Upper(Strip(Fill(df[uf + 1][r]))))) ]

\* the test guarding the insertions
RowInserted(x) == x.nome_norm # <<>> /\ Len(x.cod_norm) = 7 /\ AllDigits(x.cod_norm)

\* the inner test guarding the two region maps
UfInserted(x) ==
    /\ RowInserted(x)
    /\ Len(x.uf_norm) = 2
    /\ \A i \in 1..2 : x.uf_norm[i] \in Range(UpperLetters)

\* the last of the rows in R
LastRow(R) == SetMax(R)

\* the four dicts after the loop over rows, rows: the RefRow of each row
FourMaps(rows) ==
    LET ins == {r \in 1..Len(rows) : RowInserted(rows[r])}
        ufs == {r \in 1..Len(rows) : UfInserted(rows[r])}
    IN  [ name_to_code |->
              [k \in {rows[r].nome_norm : r \in ins} |->
                  rows[LastRow({r \in ins : rows[r].nome_norm = k})].cod_norm],
          code_to_name |->
              [k \in {rows[r].cod_norm : r \in ins} |->
                  Title(Strip(rows[LastRow({r \in ins : rows[r].cod_norm = k})].nome))],
          code_to_uf |->
              [k \in {rows[r].cod_norm : r \in ufs} |->
                  rows[LastRow({r \in ufs : rows[r].cod_norm = k})].uf_norm],
          name_to_uf |->
              [k \in {rows[r].nome_norm : r \in ufs} |->
                  rows[LastRow({r \in ufs : rows[r].nome_norm = k})].uf_norm] ]

\* the columns the three roles went to
RolesFrom(df, nome, ibge) == [nome |-> nome, ibge |-> ibge, uf |-> UfIdx(df, nome, ibge)]

Roles(df) == RolesFrom(df, NomeIdx(df), IbgeIdx(df))

MapsFor(df, ro) ==
    FourMaps([r \in 1..NRows(df) |-> RefRow(df, ro.nome, ro.ibge, ro.uf, r)])

\* the outcome once the roles ro are bound: raised (no code column), or
\* the four dicts with the roles
LoadWithRoles(df, ro) ==
    IF ro.ibge = NoIdx
    THEN [raised |-> TRUE]
    ELSE [raised |-> FALSE, roles |-> ro, maps |-> MapsFor(df, ro)]

_load_municipios_auto(df) == LoadWithRoles(df, Roles(df))

\* clientes._normalize_city
_normalize_city(s) == Strip(Upper(_strip_accents(Str(s))))

\* the dict of clientes._load_municipios after the loop over rows
ClientMap(df) ==
    LET ins == {r \in 1..NRows(df) : _normalize_city(Fill(df[4][r])) # <<>>}
    IN  [k \in {_normalize_city(Fill(df[4][r])) : r \in ins} |->
            Strip(Fill(df[2][LastRow({r \in ins : _normalize_city(Fill(df[4][r])) = k})]))]

\* clientes._load_municipios on the table read: raised (fewer than 5
\* columns), or the dict
_load_municipios(df) ==
    IF Len(df) < 5 THEN [raised |-> TRUE]
    ELSE [raised |-> FALSE, mapping |-> ClientMap(df)]

(* Reference tables and the loader runs                                    *)

MaxRefCols == 5

\* codes of 7 digits, the first of them twice
RefCodes ==
    <<
      Str(<<"3", "1", "0", "6", "2", "0", "0">>),
      Str(<<"3", "5", "5", "0", "3", "0", "8">>),
      Str(<<"3", "1", "0", "6", "2", "0", "0">>),
      Str(<<"4", "3", "1", "4", "9", "0", "2">>)
    >>

\* place names, three with a region qualifier
RefNames ==
    <<
      Str(<<"B", "e", "l", "o", " ", "H", "o", "r", "i", "z", "o", "n", "t", "e", " ", "(", "M", "G", ")">>),
      Str(<<"S", "U+00E3", "o", " ", "P", "a", "u", "l", "o">>),
      Str(<<"B", "e", "l", "o", " ", "H", "o", "r", "i", "z", "o", "n", "t", "e", " ", "-", " ", "M", "G">>),
      Str(<<"B", "e", "l", "o", " ", "H", "o", "r", "i", "z", "o", "n", "t", "e", ",", " ", "M", "G">>)
    >>

\* region codes
RefRegions ==
    <<
      Str(<<"M", "G">>), Str(<<" ", "s", "p">>), Str(<<"M", "G">>), NaN
    >>

\* a code, a name, a code of 6 digits, blank text
RefMixed ==
    <<
      Str(<<"3", "5", "5", "0", "3", "0", "8">>),
      Str(<<"U", "b", "e", "r", "a", "b", "a">>),
      Str(<<"3", "1", "0", "6", "2", "0">>), Str(<<" ">>)
    >>

\* place names, the first of them twice
RefHomonyms ==
    <<
      Str(<<"B", "o", "m", " ", "J", "e", "s", "u", "s">>),
      Str(<<"S", "U+00E3", "o", " ", "P", "a", "u", "l", "o">>),
      Str(<<"U", "b", "e", "r", "a", "b", "a">>),
      Str(<<"B", "o", "m", " ", "J", "e", "s", "u", "s">>)
    >>

RefColumns == {RefCodes, RefNames, RefRegions, RefMixed}

\* the tables of up to MaxRefCols columns, and those of up to three columns
\* that have repeated names
RefTables ==
    UNION {[1..n -> RefColumns] : n \in 1..MaxRefCols}
        \cup UNION {[1..n -> RefColumns \cup {RefHomonyms}] : n \in 1..3}

\* raw: the reference table as read; row: what the loader returned
InitRef ==
    /\ variant \in Variants
    /\ pc = "start"
    /\ raw \in RefTables
    /\ arg = NaN
    /\ out = <<>>
    /\ row = EmptyRow

LoadMunicipios ==
    /\ pc = "start"
    /\ variant = "clientes"
    /\ pc' = "loaded"
    /\ row' = _load_municipios(raw)
    /\ UNCHANGED <<variant, raw, arg, out>>

LoadMunicipiosAuto ==
    /\ pc = "start"
    /\ variant = "fornecedores"
    /\ pc' = "loaded"
    /\ row' = _load_municipios_auto(raw)
    /\ UNCHANGED <<variant, raw, arg, out>>

NextRef == LoadMunicipios \/ LoadMunicipiosAuto

SpecRef == InitRef /\ [][NextRef]_vars

-----------------------------------------------------------------------------
(* Claims on the reference index                                           *)

IsCode7(s) == Len(s) = 7 /\ AllDigits(s)

Loaded(v) == pc = "loaded" /\ variant = v /\ ~row.raised

\* the digits of the code cell of row r, for the code column the loader chose
CodeDigits(r) == _only_digits(Str(Fill(raw[row.roles.ibge + 1][r])))

\* the text of the name cell of row r, for the name column the loader chose
NameText(r) == Fill(raw[row.roles.nome + 1][r])

\* the rows with a name and a code of 7 digits
GoodRows ==
    {r \in 1..NRows(raw) :
        /\ Strip(Upper(_strip_accents(Str(NameText(r))))) # <<>>
        /\ IsCode7(CodeDigits(r))}

(* C16: in every reference index the program builds (the client loader's   *)
(* name-to-code map, the supplier loader's four maps) every stored code    *)
(* is a string of exactly 7 digits, and a row whose code is not of that    *)
(* shape or whose normalized name is empty is never inserted.              *)
C16_CodesAreSevenDigits ==
    /\ Loaded("clientes") =>
           /\ \A k \in DOMAIN row.mapping : IsCode7(row.mapping[k])
           /\ <<>> \notin DOMAIN row.mapping
    /\ Loaded("fornecedores") =>
           /\ \A k \in DOMAIN row.maps.name_to_code : IsCode7(row.maps.name_to_code[k])
           /\ \A k \in DOMAIN row.maps.code_to_name : IsCode7(k)
           /\ \A k \in DOMAIN row.maps.code_to_uf : IsCode7(k)
           /\ <<>> \notin DOMAIN row.maps.name_to_code \cup DOMAIN row.maps.name_to_uf

(* C17, as claimed: each row's code is reduced to its digits and           *)
(* left-zero-padded to 7 digits before validation, so a row whose code     *)
(* has fewer than 7 digits (6, say) is inserted under the padded code.     *)
C17_Original ==
    Loaded("fornecedores") =>
        \A r \in 1..NRows(raw) :
            (NameText(r) # <<>> /\ Len(CodeDigits(r)) \in 1..7) =>
                ZFill(CodeDigits(r), 7) \in DOMAIN row.maps.code_to_name

(* C17, amended: each row's code is reduced to its digits and validated    *)
(* as it is, without padding: the codes of the index are exactly the       *)
(* 7-digit codes of the rows that have a name, and a row whose code has    *)
(* fewer than 7 digits is not inserted.                                    *)
C17_NoPadding ==
    Loaded("fornecedores") =>
        /\ DOMAIN row.maps.code_to_name = {CodeDigits(r) : r \in GoodRows}
        /\ Range(row.maps.name_to_code) \subseteq {CodeDigits(r) : r \in GoodRows}
        /\ \A r \in 1..NRows(raw) :
               (Len(CodeDigits(r)) \in 1..6
                    /\ \A q \in GoodRows : CodeDigits(q) # ZFill(CodeDigits(r), 7))
               => ZFill(CodeDigits(r), 7) \notin DOMAIN row.maps.code_to_name

C17_Witness ==
    /\ Loaded("fornecedores")
    /\ \E r \in 1..NRows(raw) :
           /\ NameText(r) = RefNames[r].s
           /\ Len(CodeDigits(r)) = 6
           /\ ZFill(CodeDigits(r), 7) \notin DOMAIN row.maps.code_to_name
    /\ GoodRows # {}

BeloHorizonte == SubSeq(RefNames[1].s, 1, 14)

\* accent-stripped, upper-cased, trailing region qualifier removed
RegionFreeKey(name) ==
    Strip(RemoveTrailRegion(RemoveParenRegion(
        Strip(Upper(_strip_accents(Str(name)))))))

(* C18: in the supplier reference index every name key is accent-stripped, *)
(* upper-cased and has a trailing region qualifier removed: the names      *)
(* "Belo Horizonte (MG)", "Belo Horizonte - MG" and "Belo Horizonte, MG"   *)
(* are stored under the key "BELO HORIZONTE".                              *)
C18_RegionFreeKeys ==
    Loaded("fornecedores") =>
        /\ DOMAIN row.maps.name_to_code = {RegionFreeKey(NameText(r)) : r \in GoodRows}
        /\ \A r \in GoodRows :
               NameText(r) \in {RefNames[1].s, RefNames[3].s, RefNames[4].s} =>
                   Upper(BeloHorizonte) \in DOMAIN row.maps.name_to_code

(* C19, as claimed: for every reference table whose column 0 holds 7-digit *)
(* codes and whose column 2 holds place names, whatever its number of      *)
(* columns and whatever columns 1 and 3 hold, the supplier loader gives    *)
(* the code role to column 0 and the name role to column 2.                *)
C19_Original ==
    (Loaded("fornecedores") /\ Len(raw) >= 3 /\ raw[1] = RefCodes /\ raw[3] = RefNames) =>
        row.roles.ibge = 0 /\ row.roles.nome = 2

(* C19, amended: for a reference table of exactly three columns whose      *)
(* column 0 holds 7-digit codes and column 2 place names, the loader gives *)
(* the code role to column 0 and the name role to column 2 provided        *)
(* column 1 has fewer 7-digit cells than column 0 and no greater           *)
(* letters-minus-digits count than column 2.  With four or more columns    *)
(* the name role always goes to column 3, and the code role stays on       *)
(* column 1 unless another column has more 7-digit cells.                  *)
C19_ThreeColumnRoles ==
    Loaded("fornecedores") =>
        /\ (/\ Len(raw) = 3 /\ raw[1] = RefCodes /\ raw[3] = RefNames
            /\ IbgeHits(raw[2]) < IbgeHits(raw[1])
            /\ AlphaMinusDigits(raw[2]) <= AlphaMinusDigits(raw[3]))
           => row.roles.ibge = 0 /\ row.roles.nome = 2
        /\ Len(raw) > 3 => row.roles.nome = 3
        /\ (Len(raw) > 3 /\ \A j \in 1..Len(raw) : IbgeHits(raw[j]) <= IbgeHits(raw[2]))
           => row.roles.ibge = 1

C19_Witness ==
    /\ Loaded("fornecedores")
    /\ raw = <<RefCodes, RefRegions, RefNames>>
    /\ row.roles = [nome |-> 2, ibge |-> 0, uf |-> 1]
    /\ Upper(RefNames[1].s) \in DOMAIN row.maps.name_to_code

\* the columns the code scan reads, and those the region scan reads
CodeScan == ScanCols(raw, {row.roles.nome})

RegionScan == ScanCols(raw, {row.roles.nome, row.roles.ibge})

-----------------------------------------------------------------------------
(* Further claims on the reference index, column resolution and masks      *)

(* C21: for every reference table the supplier loader accepts, the columns *)
(* it assigns to the name, code and region roles are pairwise distinct.    *)
C21_RolesDistinct ==
    Loaded("fornecedores") =>
        /\ row.roles.nome # row.roles.ibge
        /\ row.roles.uf # NoIdx => row.roles.uf \notin {row.roles.nome, row.roles.ibge}

\* the candidates of key i, lower-cased as find_any compares them
LowerCands(i) == [c \in 1..Len(Schema(variant)[i].cands) |-> Lower(Schema(variant)[i].cands[c])]

\* the candidates of key i that some header of the table equals, ignoring case
EqualledCands(i) ==
    {c \in 1..Len(LowerCands(i)) :
        \E j \in 1..Len(raw.columns) : Lower(raw.columns[j]) = LowerCands(i)[c]}

\* the headers of the table that contain a candidate of key i, ignoring case
ContainingHeaders(i) ==
    {j \in 1..Len(raw.columns) :
        \E c \in 1..Len(LowerCands(i)) : Contains(Lower(raw.columns[j]), LowerCands(i)[c])}

(* C26: column resolution tries exact matches before substring matches: if *)
(* some header equals, ignoring case, a candidate of field F, F maps to a  *)
(* header equal to the earliest such candidate of F's list, even when an   *)
(* earlier header contains a candidate as a substring; substring matching  *)
(* is used only when no header matches exactly, and picks the first        *)
(* header, in header order, that contains any candidate.                   *)
C26_ExactBeforeSubstring ==
    pc = "resolved" =>
        \A i \in 1..Len(Schema(variant)) :
            /\ EqualledCands(i) # {} =>
                   /\ row.colmap[i].t = "str"
                   /\ row.colmap[i].s \in Range(raw.columns)
                   /\ Lower(row.colmap[i].s) = LowerCands(i)[SetMin(EqualledCands(i))]
            /\ (EqualledCands(i) = {} /\ ContainingHeaders(i) # {}) =>
                   row.colmap[i] = Str(raw.columns[SetMin(ContainingHeaders(i))])

C26_Witness ==
    /\ pc = "resolved"
    /\ raw.columns = <<AllHeaders[8], AllHeaders[1]>>
    /\ Contains(Lower(raw.columns[1]), LowerCands(KeyCidade)[1])
    /\ row.colmap[KeyCidade] = Str(AllHeaders[1])
    /\ row.colmap[KeyCodigoCidade] = Str(AllHeaders[8])

(* C29: the four maps of the supplier reference index are mutually         *)
(* consistent for every reference table, repeated names or codes and       *)
(* missing regions included: every value of name-to-code is a key of       *)
(* code-to-name; every key of code-to-region is a key of code-to-name; and *)
(* for every name n of name-to-region, name-to-code[n] is a key of         *)
(* code-to-region and code-to-region[name-to-code[n]] = name-to-region[n]. *)
C29_MapsConsistent ==
    Loaded("fornecedores") =>
        LET M == row.maps
        IN  /\ \A n \in DOMAIN M.name_to_code : M.name_to_code[n] \in DOMAIN M.code_to_name
            /\ DOMAIN M.code_to_uf \subseteq DOMAIN M.code_to_name
            /\ \A n \in DOMAIN M.name_to_uf :
                   /\ n \in DOMAIN M.name_to_code
                   /\ M.name_to_code[n] \in DOMAIN M.code_to_uf
                   /\ M.code_to_uf[M.name_to_code[n]] = M.name_to_uf[n]

(* C30: maskTaxId is idempotent: for every raw value (text mixing digits   *)
(* and other characters, digit strings with leading zeros, numbers,        *)
(* absent), masking the mask again returns it unchanged, so a second run   *)
(* of the pipeline on its own output leaves every tax-ID cell as it is.    *)
C30_MaskIdempotent ==
    pc = "cpf_cnpj_again" => out = raw.s

-----------------------------------------------------------------------------
(* The pipelines: processar_clientes and _processar_fornecedores_impl       *)

Modos == {"cidade_para_codigo", "codigo_para_cidade"}

\* the position of key name in the colmap of module v
KeyOf(v, name) == CHOOSE i \in 1..Len(Schema(v)) : Schema(v)[i].k = name

\* the position of the column labelled col
ColOf(df, col) == CHOOSE j \in 1..Len(df.columns) : df.columns[j] = col

\* df.at[idx, col], rows counted from 1
At(df, idx, col) == df.cells[ColOf(df, col)][idx]

\* df.at[idx, col] = val
SetAt(df, idx, col, val) == [df EXCEPT !.cells[ColOf(df, col)][idx] = val]

\* the defaults as the lines before the loop leave them
Defaults(v, conf) ==
    [ uf_default |-> Upper(Strip(conf.uf_default)),
      cidade_default_norm |->
          IF v = "clientes" THEN _normalize_city(conf.cidade_default)
          ELSE _normalize_city_for_match(Str(conf.cidade_default)),
      ibge_default |-> conf.ibge_default,
      cep_default_masked |->
          _mask_cep(ZFill(_only_digits(Str(conf.cep_default)), 8)),
      ddd_default |->
          LastN(IF _only_digits(Str(conf.ddd_default)) = <<>> THEN <<"0", "0">>
                ELSE _only_digits(Str(conf.ddd_default)), 2) ]

\* the labels the loop reads, by key
Labels(v, colmap) ==
    [k \in {Schema(v)[i].k : i \in 1..Len(Schema(v))} |-> colmap[KeyOf(v, k)].s]

(* One turn of the loop of processar_clientes.  e: [col, def, index, idx,  *)
(* modo], the labels, the defaults, the reference index, the row.          *)

\* variant of UfFill: the default region is written over any cell
UfFill_always(df, e, val) ==
    IF e.def.uf_default # <<>>
    THEN SetAt(df, e.idx, e.col[<<"u", "f">>], Str(e.def.uf_default))
    ELSE df

\* UF
UfFill(df, e, val) ==
    IF IsBlank(val) /\ e.def.uf_default # <<>>
    THEN SetAt(df, e.idx, e.col[<<"u", "f">>], Str(e.def.uf_default))
    ELSE df

UfStep(df, e) == UfFill(df, e, At(df, e.idx, e.col[<<"u", "f">>]))

\* CPF/CNPJ: written when the mask differs from the cell
DocWrite(df, e, val, new_doc) ==
    IF (IF IsNa(val) THEN new_doc # <<>> ELSE val # Str(new_doc))
    THEN SetAt(df, e.idx, e.col[<<"c", "p", "f", "_", "c", "n", "p", "j">>], Str(new_doc))
    ELSE df

DocMask(df, e, val) == DocWrite(df, e, val, _smart_cpf_cnpj_mask(val))

DocStep(df, e) == DocMask(df, e, At(df, e.idx, e.col[<<"c", "p", "f", "_", "c", "n", "p", "j">>]))

\* CEP
CepFill(df, e, val) ==
    IF IsBlank(val)
    THEN SetAt(df, e.idx, e.col[<<"c", "e", "p">>], Str(e.def.cep_default_masked))
    ELSE SetAt(df, e.idx, e.col[<<"c", "e", "p">>],
               Str(_smart_cep_mask(Str(PyStr(val)), Str(e.def.cep_default_masked))))

CepStep(df, e) == CepFill(df, e, At(df, e.idx, e.col[<<"c", "e", "p">>]))

\* Cidade
CidadeFill(df, e, val) ==
    IF IsBlank(val) /\ e.def.cidade_default_norm # <<>>
    THEN SetAt(df, e.idx, e.col[<<"c", "i", "d", "a", "d", "e">>], Str(Title(e.def.cidade_default_norm)))
    ELSE df

CidadeStep(df, e) == CidadeFill(df, e, At(df, e.idx, e.col[<<"c", "i", "d", "a", "d", "e">>]))

\* dict.get(key, "")
Get(d, key) == IF key \in DOMAIN d THEN d[key] ELSE <<>>

\* the code found for the city, or else the default code
OrDefault(ibge_code, e) ==
    IF ibge_code = <<>> /\ e.def.ibge_default # <<>> THEN e.def.ibge_default
    ELSE ibge_code

CodigoWrite(df, e, ibge_code) ==
    IF ibge_code # <<>>
    THEN SetAt(df, e.idx, e.col[<<"c", "o", "d", "i", "g", "o", "_", "c", "i", "d", "a", "d", "e">>], Str(ibge_code))
    ELSE df

\* Código IBGE
CodigoFill(df, e, val) ==
    IF IsBlank(val)
    THEN CodigoWrite(df, e,
             OrDefault(Get(e.index.mapping,
                           Strip(Upper(_strip_accents(At(df, e.idx, e.col[<<"c", "i", "d", "a", "d", "e">>]))))),
                       e))
    ELSE df

CodigoStep(df, e) == CodigoFill(df, e, At(df, e.idx, e.col[<<"c", "o", "d", "i", "g", "o", "_", "c", "i", "d", "a", "d", "e">>]))

\* the two writes of the address-number step
NumeroWrite(df, e, r, r2) ==
    IF r2 = r THEN df
    ELSE SetAt(SetAt(df, e.idx, e.col[<<"n", "u", "m", "e", "r", "o">>], r2.numero),
               e.idx, e.col[<<"e", "n", "d", "e", "r", "e", "c", "o">>], r2.endereco)

NumeroExtract(df, e, r) == NumeroWrite(df, e, r, NumeroStep(r))

\* número do endereço (the same text in both modules)
NumeroStepAt(df, e) ==
    NumeroExtract(df, e, [ numero |-> At(df, e.idx, e.col[<<"n", "u", "m", "e", "r", "o">>]),
                          endereco |-> At(df, e.idx, e.col[<<"e", "n", "d", "e", "r", "e", "c", "o">>]) ])

\* the keys of the text loop
TextKeys(v) ==
    IF v = "clientes"
    THEN <<<<"r", "a", "z", "a", "o", "_", "n", "o", "m", "e">>, <<"e", "n", "d", "e", "r", "e", "c", "o">>, <<"b", "a", "i", "r", "r", "o">>, <<"c", "o", "m", "p", "l", "e", "m", "e", "n", "t", "o">>, <<"c", "o", "n", "t", "a", "t", "o">>,
           <<"f", "a", "n", "t", "a", "s", "i", "a", "_", "a", "p", "e", "l", "i", "d", "o">>>>
    ELSE <<<<"n", "o", "m", "e">>, <<"f", "a", "n", "t", "a", "s", "i", "a">>, <<"e", "n", "d", "e", "r", "e", "c", "o">>, <<"b", "a", "i", "r", "r", "o">>, <<"c", "o", "n", "t", "a", "t", "o">>>>

TextWrite(df, e, col, val) ==
    IF ~IsBlank(val)
    THEN SetAt(df, e.idx, col,
               Str(IF e.v = "clientes" THEN _sanitize_text(val)
                   ELSE _sanitize_text_forn(val)))
    ELSE df

\* the text loop from key i on
RECURSIVE TextLoop(_, _, _, _)
TextLoop(df, e, keys, i) ==
    IF i > Len(keys) THEN df
    ELSE CHOOSE r \in
           { TextLoop(d, e, keys, i + 1) : d \in
           { TextWrite(df, e, e.col[keys[i]], At(df, e.idx, e.col[keys[i]])) }} : TRUE

PhoneWrite(df, e, col, val) ==
    IF ~IsBlank(val)
    THEN SetAt(df, e.idx, col,
               Str(_smart_phone_mask(Str(PyStr(val)), Str(e.def.ddd_default))))
    ELSE df

PhoneAt(df, e, key) == PhoneWrite(df, e, e.col[key], At(df, e.idx, e.col[key]))

\* Telefones
PhonesStep(df, e) == PhoneAt(PhoneAt(df, e, <<"t", "e", "l", "_", "p", "r", "i", "n", "c", "i", "p", "a", "l">>), e, <<"t", "e", "l", "_", "c", "o", "m", "e", "r", "c", "i", "a", "l">>)

\* the body of the loop of processar_clientes for row e.idx
\* (each step works on the table the step before it left)
RowClientes(df, e) ==
    CHOOSE r \in
      { PhonesStep(d7, e) : d7 \in
      { TextLoop(d6, e, TextKeys("clientes"), 1) : d6 \in
      { NumeroStepAt(d5, e) : d5 \in
      { CodigoStep(d4, e) : d4 \in
      { CidadeStep(d3, e) : d3 \in
      { CepStep(d2, e) : d2 \in
      { DocStep(d1, e) : d1 \in
      { UfStep(df, e) }}}}}}}} : TRUE

(* One turn of the loop of _processar_fornecedores_impl                    *)

\* CPF/CNPJ
DocFillForn(df, e, val) ==
    IF ~IsBlank(val)
    THEN SetAt(df, e.idx, e.col[<<"c", "p", "f", "_", "c", "n", "p", "j">>], Str(_smart_cpf_cnpj_mask_forn(val)))
    ELSE SetAt(df, e.idx, e.col[<<"c", "p", "f", "_", "c", "n", "p", "j">>], Str(<<>>))

DocStepForn(df, e) == DocFillForn(df, e, At(df, e.idx, e.col[<<"c", "p", "f", "_", "c", "n", "p", "j">>]))

\* variant of UfChain: the city name is asked before the code
UfChain_name_first(df, e, cur_code, uf_by_name) ==
    IF uf_by_name # <<>>
    THEN SetAt(df, e.idx, e.col[<<"u", "f">>], Str(uf_by_name))
    ELSE IF cur_code # <<>> /\ cur_code \in DOMAIN e.index.maps.code_to_uf
    THEN SetAt(df, e.idx, e.col[<<"u", "f">>], Str(e.index.maps.code_to_uf[cur_code]))
    ELSE IF e.def.uf_default # <<>>
    THEN SetAt(df, e.idx, e.col[<<"u", "f">>], Str(e.def.uf_default))
    ELSE df

\* the priority chain: by code, by name, default
UfChain(df, e, cur_code, uf_by_name) ==
    IF cur_code # <<>> /\ cur_code \in DOMAIN e.index.maps.code_to_uf
    THEN SetAt(df, e.idx, e.col[<<"u", "f">>], Str(e.index.maps.code_to_uf[cur_code]))
    ELSE IF uf_by_name # <<>>
    THEN SetAt(df, e.idx, e.col[<<"u", "f">>], Str(uf_by_name))
    ELSE IF e.def.uf_default # <<>>
    THEN SetAt(df, e.idx, e.col[<<"u", "f">>], Str(e.def.uf_default))
    ELSE df

\* UF
UfStepForn(df, e) ==
    IF IsBlank(At(df, e.idx, e.col[<<"u", "f">>]))
    THEN UfChain(df, e,
                 _only_digits(At(df, e.idx, e.col[<<"c", "o", "d", "i", "g", "o", "_", "c", "i", "d", "a", "d", "e">>])),
                 Get(e.index.maps.name_to_uf,
                     _normalize_city_for_match(At(df, e.idx, e.col[<<"c", "i", "d", "a", "d", "e">>]))))
    ELSE df

\* CEP
CepFillForn(df, e, val) ==
    IF IsBlank(val)
    THEN SetAt(df, e.idx, e.col[<<"c", "e", "p">>], Str(e.def.cep_default_masked))
    ELSE SetAt(df, e.idx, e.col[<<"c", "e", "p">>],
               Str(_smart_cep_mask_forn(Str(PyStr(val)), Str(e.def.cep_default_masked))))

CepStepForn(df, e) == CepFillForn(df, e, At(df, e.idx, e.col[<<"c", "e", "p">>]))

\* the code from the city, when the code cell is still empty
CodigoFromCidade(df, e) ==
    IF IsBlank(At(df, e.idx, e.col[<<"c", "o", "d", "i", "g", "o", "_", "c", "i", "d", "a", "d", "e">>]))
    THEN CodigoWrite(df, e,
             OrDefault(Get(e.index.maps.name_to_code,
                           _normalize_city_for_match(At(df, e.idx, e.col[<<"c", "i", "d", "a", "d", "e">>]))),
                       e))
    ELSE df

\* variant of CidadeFromCodigo: the default city before the reference name
CidadeFromCodigo_default_first(df, e, val_cid, val_codcid, cod_norm) ==
    IF ~IsBlank(val_cid) THEN df
    ELSE IF e.def.cidade_default_norm # <<>>
    THEN SetAt(df, e.idx, e.col[<<"c", "i", "d", "a", "d", "e">>], Str(Title(e.def.cidade_default_norm)))
    ELSE IF cod_norm # <<>> /\ cod_norm \in DOMAIN e.index.maps.code_to_name
    THEN SetAt(df, e.idx, e.col[<<"c", "i", "d", "a", "d", "e">>], Str(e.index.maps.code_to_name[cod_norm]))
    ELSE df

\* modo codigo_para_cidade, step 1
CidadeFromCodigo(df, e, val_cid, val_codcid, cod_norm) ==
    IF ~IsBlank(val_cid) THEN df
    ELSE IF cod_norm # <<>> /\ cod_norm \in DOMAIN e.index.maps.code_to_name
    THEN SetAt(df, e.idx, e.col[<<"c", "i", "d", "a", "d", "e">>], Str(e.index.maps.code_to_name[cod_norm]))
    ELSE IF e.def.cidade_default_norm # <<>>
    THEN SetAt(df, e.idx, e.col[<<"c", "i", "d", "a", "d", "e">>], Str(Title(e.def.cidade_default_norm)))
    ELSE df

\* modo cidade_para_codigo, step 1
CidadeOrDefault(df, e, val_cid) ==
    IF IsBlank(val_cid)
    THEN (IF e.def.cidade_default_norm # <<>>
          THEN SetAt(df, e.idx, e.col[<<"c", "i", "d", "a", "d", "e">>], Str(Title(e.def.cidade_default_norm)))
          ELSE df)
    ELSE SetAt(df, e.idx, e.col[<<"c", "i", "d", "a", "d", "e">>], Str(_fix_mojibake_pt(Str(PyStr(val_cid)))))

CidadeByModo(df, e, val_cid, val_codcid) ==
    IF e.modo = "codigo_para_cidade"
    THEN CidadeFromCodigo(df, e, val_cid, val_codcid,
                          IF IsNa(val_codcid) THEN <<>> ELSE _only_digits(val_codcid))
    ELSE CidadeOrDefault(df, e, val_cid)

\* CIDADE / IBGE conforme modo
CidadeCodigoStep(df, e) ==
    CHOOSE r \in
      { CodigoFromCidade(d, e) : d \in
      { CidadeByModo(df, e, At(df, e.idx, e.col[<<"c", "i", "d", "a", "d", "e">>]),
                     At(df, e.idx, e.col[<<"c", "o", "d", "i", "g", "o", "_", "c", "i", "d", "a", "d", "e">>])) }} : TRUE

PhoneWriteForn(df, e, col, val) ==
    IF ~IsBlank(val)
    THEN SetAt(df, e.idx, col,
               Str(_smart_phone_mask_forn(Str(PyStr(val)), Str(e.def.ddd_default))))
    ELSE SetAt(df, e.idx, col, Str(<<>>))

\* Telefone
PhoneStepForn(df, e) ==
    PhoneWriteForn(df, e, e.col[<<"f", "o", "n", "e">>], At(df, e.idx, e.col[<<"f", "o", "n", "e">>]))

\* the body of the loop of _processar_fornecedores_impl for row e.idx
RowFornecedores(df, e) ==
    CHOOSE r \in
      { PhoneStepForn(d6, e) : d6 \in
      { TextLoop(d5, e, TextKeys("fornecedores"), 1) : d5 \in
      { NumeroStepAt(d4, e) : d4 \in
      { CidadeCodigoStep(d3, e) : d3 \in
      { CepStepForn(d2, e) : d2 \in
      { UfStepForn(d1, e) : d1 \in
      { DocStepForn(df, e) }}}}}}} : TRUE

\* the environment of the loop body: st is the run's state
Env(v, modo, st, idx) ==
    [ v |-> v, modo |-> modo, idx |-> idx, col |-> Labels(v, st.colmap),
      def |-> st.def, index |-> st.index ]

\* variant of RowBody: the turn for row idx works on the row after it
RowBody_next_row(v, modo, st, idx) ==
    CHOOSE r \in
      { IF v = "clientes" THEN RowClientes(st.df, e) ELSE RowFornecedores(st.df, e) :
          e \in {Env(v, modo, st, IF idx < Len(st.df.cells[1]) THEN idx + 1 ELSE idx)} } : TRUE

\* the table after the turn of the loop for row idx
RowBody(v, modo, st, idx) ==
    CHOOSE r \in
      { IF v = "clientes" THEN RowClientes(st.df, e) ELSE RowFornecedores(st.df, e) :
          e \in {Env(v, modo, st, idx)} } : TRUE

(* Runs of the pipelines                                                   *)

MaxRows == 2

\* a sheet row, by field
BaseRow ==
    [ nome |-> Str(<<"J", "o", "s", "U+00E9", " ", "&", " ", "C", "i", "a", ".">>), doc |-> Str(<<"1", "2", "3", "4", "5", "6", "7", "8", "9", "0", "1">>), uf |-> Str(<<"r", "j">>),
      cep |-> IntCell(<<"3", "0", "1", "4", "0", "0", "7", "1">>), cidade |-> Str(<<"U", "b", "e", "r", "a", "b", "a">>), ibge |-> Str(<<"3", "1", "7", "0", "1", "0", "7">>),
      endereco |-> Str(<<"R", "u", "a", " ", "A", ",", " ", "1", "2", "3", ".">>), numero |-> NaN, fone |-> Str(<<"(", "3", "1", ")", " ", "3", "3", "3", "3", "-", "4", "4", "4", "4">>),
      fantasia |-> NaN, bairro |-> Str(<<"C", "e", "n", "t", "r", "o">>), contato |-> NaN,
      complemento |-> NaN, tel2 |-> Str(<<"3", "3", "3", "3", "4", "4", "4", "4">>) ]

\* rows of a sheet: the region, city and code cells filled or empty in
\* the ways the loop tells apart
SampleRows ==
    <<
      [BaseRow EXCEPT !.uf = NaN, !.cidade = Str(<<"S", "U+00E3", "o", " ", "P", "a", "u", "l", "o">>), !.ibge = Str(<<"3", "1", "0", "6", "2", "0", "0">>)],
      [BaseRow EXCEPT !.uf = Str(<<>>), !.cidade = Str(<<"S", "a", "o", " ", "P", "a", "u", "l", "o">>), !.ibge = NaN],
      [BaseRow EXCEPT !.uf = Str(<<" ">>), !.cidade = Str(<<"C", "o", "n", "t", "a", "g", "e", "m">>), !.ibge = Str(<<>>),
                      !.numero = Str(<<"4", "5">>)],
      BaseRow,
      [BaseRow EXCEPT !.cidade = NaN, !.ibge = IntCell(<<"3", "5", "5", "0", "3", "0", "8">>), !.uf = NaN],
      [BaseRow EXCEPT !.cidade = Str(<<" ">>), !.ibge = Str(<<"9", "9", "9">>), !.cep = NaN],
      [BaseRow EXCEPT !.cidade = Str(<<"B", "e", "l", "o", " ", "H", "o", "r", "i", "z", "o", "n", "t", "e", " ", "(", "M", "G", ")">>), !.ibge = NaN, !.uf = NaN],
      [BaseRow EXCEPT !.cidade = Str(<<"V", "I", "T", "U+00C3", "U+2019", "R", "I", "A">>), !.numero = Str(<<"4", "5">>),
                      !.doc = NaN, !.fone = NaN]
    >>

\* the columns of a sheet: label and field
LayoutBasic ==
    << <<<<"N", "o", "m", "e">>, "nome">>, <<<<"D", "o", "c", "u", "m", "e", "n", "t", "o">>, "doc">>, <<<<"U", "F">>, "uf">>,
       <<<<"C", "E", "P">>, "cep">>, <<<<"C", "i", "d", "a", "d", "e">>, "cidade">>, <<<<"I", "B", "G", "E">>, "ibge">>,
       <<<<"E", "n", "d", "e", "r", "e", "c", "o">>, "endereco">>, <<<<"N", "u", "m", "e", "r", "o">>, "numero">>, <<<<"F", "o", "n", "e">>, "fone">> >>

\* every logical field of both modules has its column
LayoutFull ==
    LayoutBasic \o
    << <<<<"F", "a", "n", "t", "a", "s", "i", "a">>, "fantasia">>, <<<<"B", "a", "i", "r", "r", "o">>, "bairro">>,
       <<<<"C", "o", "n", "t", "a", "t", "o">>, "contato">>, <<<<"C", "o", "m", "p", "l", "e", "m", "e", "n", "t", "o">>, "complemento">>,
       <<<<"T", "e", "l", "e", "f", "o", "n", "e", "2">>, "tel2">> >>

\* one column serves cidade (substring) and codigo_cidade (exact)
LayoutShared ==
    << <<<<"N", "o", "m", "e">>, "nome">>, <<<<"D", "o", "c", "u", "m", "e", "n", "t", "o">>, "doc">>, <<<<"U", "F">>, "uf">>,
       <<<<"C", "E", "P">>, "cep">>, <<<<"c", "o", "d", "_", "c", "i", "d", "a", "d", "e">>, "ibge">>,
       <<<<"E", "n", "d", "e", "r", "e", "c", "o">>, "endereco">>, <<<<"N", "u", "m", "e", "r", "o">>, "numero">>, <<<<"F", "o", "n", "e">>, "fone">> >>

Layouts == {LayoutBasic, LayoutFull, LayoutShared}

\* the sheet with the columns of layout and the rows recs
Sheet(layout, recs) ==
    [ columns |-> [j \in 1..Len(layout) |-> layout[j][1]],
      cells |-> [j \in 1..Len(layout) |-> [r \in 1..Len(recs) |-> recs[r][layout[j][2]]]] ]

\* up to MaxRows consecutive sample rows, in either order
RowLists ==
    LET W == {SubSeq(SampleRows, a, b) :
                 a \in 1..Len(SampleRows), b \in 0..Len(SampleRows)}
    IN  {w \in W \cup {Reverse(w) : w \in W} : Len(w) <= MaxRows}

Sheets == {Sheet(l, recs) : l \in Layouts, recs \in RowLists}

\* the reference file: absent, not readable, or holding a table
RefFiles ==
    { [kind |-> "missing", df |-> <<>>],
      [kind |-> "unreadable", df |-> <<>>],
      [kind |-> "table", df |-> <<RefCodes>>],
      [kind |-> "table", df |-> <<RefCodes, RefRegions, RefHomonyms>>],
      [kind |-> "table", df |-> <<RefRegions, RefCodes, RefMixed, RefNames, RefRegions>>] }

\* the defaults the caller passes
Configs ==
    { [ cidade_default |-> <<"S", "U+00E3", "o", " ", "P", "a", "u", "l", "o">>, uf_default |-> <<" ", "g", "o">>,
        ibge_default |-> <<"5", "2", "0", "8", "7", "0", "7">>, cep_default |-> <<"7", "4", "0", "0", "0", "-", "0", "0", "0">>,
        ddd_default |-> <<"6", "2">> ],
      [ cidade_default |-> <<>>, uf_default |-> <<>>, ibge_default |-> <<>>,
        cep_default |-> <<>>, ddd_default |-> <<>> ] }

\* variant of LoadReference: a reference file that cannot be used gives an
\* empty index instead of an exception
LoadReference_empty_index(v, ref) ==
    IF v = "clientes"
    THEN (IF ref.kind = "table" /\ Len(ref.df) >= 5 THEN _load_municipios(ref.df)
          ELSE [raised |-> FALSE, mapping |-> <<>>])
    ELSE (IF ref.kind = "table" /\ Len(ref.df) >= 2 THEN _load_municipios_auto(ref.df)
          ELSE [raised |-> FALSE,
                maps |-> [ name_to_code |-> <<>>, code_to_name |-> <<>>,
                           code_to_uf |-> <<>>, name_to_uf |-> <<>> ]])

\* the loader of module v on the reference file: raised, or the index
LoadReference(v, ref) ==
    IF ref.kind # "table" THEN [raised |-> TRUE]
    ELSE IF v = "clientes" THEN _load_municipios(ref.df)
    ELSE _load_municipios_auto(ref.df)

\* raw: the run's inputs [sheet, ref, conf, modo]; row: the run's state
\* [df, colmap, created, index, def, idx], idx the rows transformed so far;
\* arg: the table as column resolution left it; out: the files written
InitRun ==
    /\ variant \in Variants
    /\ pc = "start"
    /\ raw \in [ sheet : Sheets, ref : RefFiles, conf : Configs,
                 modo : IF variant = "clientes" THEN {"cidade_para_codigo"} ELSE Modos ]
    /\ arg = NaN
    /\ out = <<>>
    /\ row = EmptyRow

\* the table is read and its columns resolved
ResolveColumns ==
    /\ pc = "start"
    /\ pc' = "columns"
    /\ \E st \in {_best_guess_columns(variant, raw.sheet)} :
           row' = st /\ arg' = st.df
    /\ UNCHANGED <<variant, raw, out>>

\* the run's state once the index is loaded and the defaults are set
Loaded_state(st, index, def) ==
    [ df |-> st.df, colmap |-> st.colmap, created |-> st.created,
      index |-> index, def |-> def, idx |-> 0 ]

\* the reference index is loaded and the defaults are normalised
LoadIndex ==
    /\ pc = "columns"
    /\ \E index \in {LoadReference(variant, raw.ref)} :
           /\ ~index.raised
           /\ row' = Loaded_state(row, index, Defaults(variant, raw.conf))
    /\ pc' = "transform"
    /\ UNCHANGED <<variant, raw, arg, out>>

\* the loader raises: the exception leaves the function
LoadFails ==
    /\ pc = "columns"
    /\ LoadReference(variant, raw.ref).raised
    /\ pc' = "failed"
    /\ UNCHANGED <<variant, raw, arg, out, row>>

\* one turn of the loop over the rows
TransformRow ==
    /\ pc = "transform"
    /\ row.idx < Len(row.df.cells[1])
    /\ \E df \in {RowBody(variant, raw.modo, row, row.idx + 1)} :
           row' = [row EXCEPT !.df = df, !.idx = row.idx + 1]
    /\ UNCHANGED <<variant, pc, raw, arg, out>>

\* df.to_excel after the loop
WriteTable ==
    /\ pc = "transform"
    /\ row.idx = Len(row.df.cells[1])
    /\ pc' = "written"
    /\ out' = Append(out, [file |-> "xlsx", df |-> row.df])
    /\ UNCHANGED <<variant, raw, arg, row>>

\* the log of created columns, when there are any
WriteLog ==
    /\ pc = "written"
    /\ row.created # <<>>
    /\ pc' = "returned"
    /\ out' = Append(out, [file |-> "log", colunas_criadas |-> row.created])
    /\ UNCHANGED <<variant, raw, arg, row>>

Return ==
    /\ pc = "written"
    /\ row.created = <<>>
    /\ pc' = "returned"
    /\ UNCHANGED <<variant, raw, arg, out, row>>

NextRun ==
    \/ ResolveColumns
    \/ LoadIndex
    \/ LoadFails
    \/ TransformRow
    \/ WriteTable
    \/ WriteLog
    \/ Return

SpecRun == InitRun /\ [][NextRun]_vars

-----------------------------------------------------------------------------
(* Claims on the runs of the pipelines                                     *)

\* the rows of a sheet
NRowsOf(df) == Len(df.cells[1])

\* the reference file cannot be used: it is absent, cannot be read, or has
\* fewer columns than the loader of the module needs
RefUnusable(v, ref) ==
    \/ ref.kind \in {"missing", "unreadable"}
    \/ Len(ref.df) < (IF v = "clientes" THEN 5 ELSE 2)

\* C22: the output table and the log are written only after the columns
\* are resolved, the reference index is loaded and every row is
\* transformed; when the reference file is missing, unreadable or has too
\* few columns the run fails with no row transformed and nothing written
C22_WritesAfterSetup ==
    /\ out # <<>> =>
          /\ pc \in {"written", "returned"}
          /\ ~RefUnusable(variant, raw.ref)
          /\ row.idx = NRowsOf(arg)
          /\ out[1] = [file |-> "xlsx", df |-> row.df]
          /\ Len(out) = 2 => pc = "returned" /\ out[2].file = "log"
    /\ pc \in {"written", "returned"} => out # <<>>
    /\ (pc # "start" /\ RefUnusable(variant, raw.ref)) =>
          /\ pc \in {"columns", "failed"}
          /\ out = <<>>
          /\ row.df = arg

\* a run has failed on a reference table of too few columns, the sheet
\* having rows
C22_Witness ==
    /\ pc = "failed"
    /\ raw.ref.kind = "table"
    /\ NRowsOf(arg) = MaxRows
    /\ out = <<>>

\* the labels of the run's column map, by key
Col == Labels(variant, row.colmap)

\* the loop has been entered
InLoop == pc \in {"transform", "written", "returned"}

\* the loop has been entered with a column map that gives every key a
\* column of its own
DistinctColumns ==
    InLoop /\ \A k1, k2 \in DOMAIN Col : k1 # k2 => Col[k1] # Col[k2]

\* the cell of key k in row r before the loop, and now
Before(r, k) == At(arg, r, Col[k])
After(r, k) == At(row.df, r, Col[k])

\* the rows transformed so far
Done == IF InLoop THEN 1..row.idx ELSE {}

\* a non-empty cell of key k is the same after the loop's turn
Kept(k) == \A r \in Done : ~IsBlank(Before(r, k)) => After(r, k) = Before(r, k)

\* the non-empty city cells are not written: processar_clientes, and
\* modo codigo_para_cidade
CityKept == variant = "clientes" \/ raw.modo = "codigo_para_cidade"

\* the statement as the specification has it: with distinct columns, a
\* non-empty uf, cep, cidade, codigo_cidade or numero cell is the same
\* after Transform, in both pipelines
C23_Original ==
    DistinctColumns =>
        Kept(<<"u", "f">>) /\ Kept(<<"c", "e", "p">>) /\ Kept(<<"c", "i", "d", "a", "d", "e">>)
        /\ Kept(<<"c", "o", "d", "i", "g", "o", "_", "c", "i", "d", "a", "d", "e">>)
        /\ Kept(<<"n", "u", "m", "e", "r", "o">>)

\* C23: with distinct columns, a non-empty uf, codigo_cidade or numero cell
\* is the same after Transform in both pipelines, and so is a non-empty
\* cidade cell in the client pipeline and in modo codigo_para_cidade; a
\* non-empty cep cell is replaced by its mask, and in the supplier's modo
\* cidade_para_codigo a non-empty cidade cell by its encoding repair
C23_NonEmptyCells ==
    DistinctColumns =>
        /\ Kept(<<"u", "f">>)
        /\ Kept(<<"c", "o", "d", "i", "g", "o", "_", "c", "i", "d", "a", "d", "e">>)
        /\ Kept(<<"n", "u", "m", "e", "r", "o">>)
        /\ CityKept => Kept(<<"c", "i", "d", "a", "d", "e">>)
        /\ \A r \in Done :
              /\ ~IsBlank(Before(r, <<"c", "e", "p">>)) =>
                    After(r, <<"c", "e", "p">>) =
                        Str(IF variant = "clientes"
                            THEN _smart_cep_mask(Str(PyStr(Before(r, <<"c", "e", "p">>))),
                                                 Str(row.def.cep_default_masked))
                            ELSE _smart_cep_mask_forn(Str(PyStr(Before(r, <<"c", "e", "p">>))),
                                                      Str(row.def.cep_default_masked)))
              /\ (~CityKept /\ ~IsBlank(Before(r, <<"c", "i", "d", "a", "d", "e">>))) =>
                    After(r, <<"c", "i", "d", "a", "d", "e">>) =
                        Str(_fix_mojibake_pt(Str(PyStr(Before(r, <<"c", "i", "d", "a", "d", "e">>)))))

\* a supplier run in modo cidade_para_codigo has transformed a row whose
\* uf, code and number cells were filled, whose cep cell changed and whose
\* city cell was repaired
C23_Witness ==
    /\ DistinctColumns
    /\ variant = "fornecedores" /\ raw.modo = "cidade_para_codigo"
    /\ \E r \in Done :
          /\ ~IsBlank(Before(r, <<"u", "f">>))
          /\ ~IsBlank(Before(r, <<"c", "o", "d", "i", "g", "o", "_", "c", "i", "d", "a", "d", "e">>))
          /\ ~IsBlank(Before(r, <<"n", "u", "m", "e", "r", "o">>))
          /\ ~IsBlank(Before(r, <<"c", "e", "p">>))
          /\ After(r, <<"c", "e", "p">>) # Before(r, <<"c", "e", "p">>)
          /\ ~IsBlank(Before(r, <<"c", "i", "d", "a", "d", "e">>))
          /\ After(r, <<"c", "i", "d", "a", "d", "e">>) # Before(r, <<"c", "i", "d", "a", "d", "e">>)

\* the digits of the code cell and the match key of the city cell of row r
\* before the loop
CodeOf(r) == _only_digits(Before(r, <<"c", "o", "d", "i", "g", "o", "_", "c", "i", "d", "a", "d", "e">>))
CityKeyOf(r) == _normalize_city_for_match(Before(r, <<"c", "i", "d", "a", "d", "e">>))

\* the region the chain gives row r: by code, by name, the default
\* (stripped and upper-cased, as the lines before the loop leave it), or
\* else the cell as it was
UfExpected(r) ==
    IF CodeOf(r) # <<>> /\ CodeOf(r) \in DOMAIN row.index.maps.code_to_uf
    THEN Str(row.index.maps.code_to_uf[CodeOf(r)])
    ELSE IF CityKeyOf(r) \in DOMAIN row.index.maps.name_to_uf
    THEN Str(row.index.maps.name_to_uf[CityKeyOf(r)])
    ELSE IF row.def.uf_default # <<>>
    THEN Str(row.def.uf_default)
    ELSE Before(r, <<"u", "f">>)

\* C24: in the supplier pipeline a row with an empty uf cell gets the
\* region of the digits of its code cell when code_to_uf has them, else the
\* region of its match-normalized city when name_to_uf has it, else the
\* default region when that is not empty, else the cell stays as it was
C24_UfPriority ==
    (InLoop /\ variant = "fornecedores") =>
        \A r \in Done :
            IsBlank(Before(r, <<"u", "f">>)) => After(r, <<"u", "f">>) = UfExpected(r)

\* a transformed supplier row whose code and city name give different
\* regions has the region of the code
C24_Witness ==
    /\ InLoop /\ variant = "fornecedores"
    /\ \E r \in Done :
          /\ IsBlank(Before(r, <<"u", "f">>))
          /\ CodeOf(r) \in DOMAIN row.index.maps.code_to_uf
          /\ CityKeyOf(r) \in DOMAIN row.index.maps.name_to_uf
          /\ row.index.maps.code_to_uf[CodeOf(r)] # row.index.maps.name_to_uf[CityKeyOf(r)]
          /\ After(r, <<"u", "f">>) = Str(row.index.maps.code_to_uf[CodeOf(r)])

\* row r of a sheet, by column
RowCells(df, r) == [j \in 1..Len(df.cells) |-> df.cells[j][r]]

\* row r of the input after the loop body has worked on it alone
Canon(r) ==
    CHOOSE x \in
      { RowCells(IF variant = "clientes" THEN RowClientes(arg, e)
                 ELSE RowFornecedores(arg, e), r) :
          e \in {Env(variant, raw.modo, row, r)} } : TRUE

\* C25: the table keeps the input's columns and rows; after idx turns of
\* the loop rows 1..idx hold the canonicalization of the same rows of the
\* input and the rows after idx are as the input has them; the table
\* written is the table after the turn for the last row
C25_RowsInOrder ==
    InLoop =>
        /\ row.df.columns = arg.columns
        /\ \A j \in 1..Len(row.df.cells) : Len(row.df.cells[j]) = NRowsOf(arg)
        /\ row.idx \in 0..NRowsOf(arg)
        /\ \A r \in 1..NRowsOf(arg) :
              RowCells(row.df, r) =
                  IF r <= row.idx THEN Canon(r) ELSE RowCells(arg, r)
        /\ pc # "transform" =>
              row.idx = NRowsOf(arg) /\ out[1].df = row.df

\* a table of MaxRows different rows has been written, every row changed
C25_Witness ==
    /\ pc = "returned"
    /\ NRowsOf(arg) = MaxRows
    /\ \A r \in 1..MaxRows : RowCells(row.df, r) # RowCells(arg, r)
    /\ \A r \in 2..MaxRows : RowCells(arg, r) # RowCells(arg, 1)
    /\ out[1].df = row.df

\* cod_norm of modo codigo_para_cidade for row r of the input
CodNormOf(r) ==
    IF IsNa(Before(r, <<"c", "o", "d", "i", "g", "o", "_", "c", "i", "d", "a", "d", "e">>)) THEN <<>>
    ELSE _only_digits(Before(r, <<"c", "o", "d", "i", "g", "o", "_", "c", "i", "d", "a", "d", "e">>))

\* a supplier run in modo codigo_para_cidade, the loop entered, the fields
\* on columns of their own
CodeToCity ==
    DistinctColumns /\ variant = "fornecedores" /\ raw.modo = "codigo_para_cidade"

\* C27: in modo codigo_para_cidade an empty city cell gets the reference
\* name of the digits of the code cell when code_to_name has them, else the
\* title-cased default city when one is configured, else it stays empty; a
\* non-empty city cell is unchanged
C27_DefaultCity ==
    CodeToCity =>
        \A r \in Done :
            After(r, <<"c", "i", "d", "a", "d", "e">>) =
                IF ~IsBlank(Before(r, <<"c", "i", "d", "a", "d", "e">>)) THEN Before(r, <<"c", "i", "d", "a", "d", "e">>)
                ELSE IF CodNormOf(r) \in DOMAIN row.index.maps.code_to_name
                THEN Str(row.index.maps.code_to_name[CodNormOf(r)])
                ELSE IF raw.conf.cidade_default # <<>>
                THEN Str(Title(raw.conf.cidade_default))
                ELSE Before(r, <<"c", "i", "d", "a", "d", "e">>)

\* what the loop writes: the default city is written as its title-cased
\* match key (accents, punctuation and a trailing two-letter word removed)
CityAsCoded ==
    CodeToCity =>
        \A r \in Done :
            After(r, <<"c", "i", "d", "a", "d", "e">>) =
                IF ~IsBlank(Before(r, <<"c", "i", "d", "a", "d", "e">>)) THEN Before(r, <<"c", "i", "d", "a", "d", "e">>)
                ELSE IF CodNormOf(r) # <<>>
                        /\ CodNormOf(r) \in DOMAIN row.index.maps.code_to_name
                THEN Str(row.index.maps.code_to_name[CodNormOf(r)])
                ELSE IF _normalize_city_for_match(Str(raw.conf.cidade_default)) # <<>>
                THEN Str(Title(_normalize_city_for_match(Str(raw.conf.cidade_default))))
                ELSE Before(r, <<"c", "i", "d", "a", "d", "e">>)

\* a row with an empty city cell and a code of the index has the reference
\* name, which is not the default city that is configured
CityAsCoded_Reached ==
    /\ CodeToCity
    /\ raw.conf.cidade_default # <<>>
    /\ \E r \in Done :
          /\ IsBlank(Before(r, <<"c", "i", "d", "a", "d", "e">>))
          /\ CodNormOf(r) \in DOMAIN row.index.maps.code_to_name
          /\ After(r, <<"c", "i", "d", "a", "d", "e">>) = Str(row.index.maps.code_to_name[CodNormOf(r)])
          /\ After(r, <<"c", "i", "d", "a", "d", "e">>) # Str(Title(row.def.cidade_default_norm))

\* the rows of the reference table as the loader's loop sees them
RefRowsOf ==
    [i \in 1..NRows(raw.ref.df) |->
        RefRow(raw.ref.df, row.index.roles.nome, row.index.roles.ibge,
               row.index.roles.uf, i)]

\* the reference rows the loader inserts whose key no other inserted row has
UniqueRefRows ==
    {i \in 1..Len(RefRowsOf) :
        /\ RowInserted(RefRowsOf[i])
        /\ \A j \in 1..Len(RefRowsOf) :
              (j # i /\ RowInserted(RefRowsOf[j])) =>
                  RefRowsOf[j].nome_norm # RefRowsOf[i].nome_norm}

\* C28: in the supplier pipeline, in both modes, a row whose city cell is
\* exactly the name of an inserted reference row (the only one of that
\* name) and whose code cell is empty has that reference row's code after
\* Transform
C28_KeysAgree ==
    (DistinctColumns /\ variant = "fornecedores") =>
        \A i \in UniqueRefRows : \A r \in Done :
            (Before(r, <<"c", "i", "d", "a", "d", "e">>) = Str(RefRowsOf[i].nome)
             /\ IsBlank(Before(r, <<"c", "o", "d", "i", "g", "o", "_", "c", "i", "d", "a", "d", "e">>)))
            => After(r, <<"c", "o", "d", "i", "g", "o", "_", "c", "i", "d", "a", "d", "e">>) = Str(RefRowsOf[i].cod_norm)

=============================================================================
